---- MODULE Spec2Model ----
(***************************************************************************)
(* State-machine model of the hardware renderer's texture cache            *)
(* (GPUTextureCache, src/core/gpu_hw_texture_cache.{h,cpp}) and of the     *)
(* VRAM-writing entry points of GPU_HW that drive it.                      *)
(*                                                                         *)
(* The cache is modelled at pointer level: every Source owns an array of   *)
(* SourceListNode, and every page owns the head/tail of an intrusive       *)
(* doubly-linked list threaded through those nodes.                        *)
(***************************************************************************)
EXTENDS Integers, Sequences, FiniteSets

(***************************************************************************)
(* Program constants.                                                      *)
(***************************************************************************)
VRAM_WIDTH == 1024

VRAM_HEIGHT == 512

TEXTURE_PAGE_WIDTH == 256

TEXTURE_PAGE_HEIGHT == 256

VRAM_PAGE_WIDTH == 64

VRAM_PAGE_HEIGHT == 256

VRAM_PAGES_WIDE == VRAM_WIDTH \div VRAM_PAGE_WIDTH

VRAM_PAGES_HIGH == VRAM_HEIGHT \div VRAM_PAGE_HEIGHT

NUM_PAGES == VRAM_PAGES_WIDE * VRAM_PAGES_HIGH

MAX_PAGE_REFS_PER_SOURCE == 6

\* GPUTextureMode values used as SourceKey::mode.
Palette4Bit == 0

Palette8Bit == 1

Direct16Bit == 2

Reserved_Direct16Bit == 3

(***************************************************************************)
(* Bounds of the model.                                                    *)
(***************************************************************************)
\* Number of Source objects (and textures) the device hands out in one run.
MaxSources == 4

(***************************************************************************)
(* Pointers.  A Source* is a number in 1..MaxSources, nullptr is 0.  A     *)
(* SourceListNode* is the pair (owning Source, index into page_refs).      *)
(***************************************************************************)
NULL == 0

\* A value the program reads without anything in it having set it (a member
\* left uninitialised, memory past the end of an array): any value.
Indeterminate == 0 - 1

NullNode == [s |-> 0, i |-> 0]

NodePtr(s, i) == [s |-> s, i |-> i]

Pages == 0 .. (NUM_PAGES - 1)

SourceIds == 1 .. MaxSources

RefIdx == 0 .. (MAX_PAGE_REFS_PER_SOURCE - 1)

(***************************************************************************)
(* Page geometry.                                                          *)
(***************************************************************************)
PageIndex(px, py) == (py * VRAM_PAGES_WIDE) + px

PageStartX(pn) == (pn % VRAM_PAGES_WIDE) * VRAM_PAGE_WIDTH

PageStartY(pn) == (pn \div VRAM_PAGES_WIDE) * VRAM_PAGE_HEIGHT

WidthForMode(mode) ==
    IF mode < Direct16Bit
      THEN TEXTURE_PAGE_WIDTH \div (2 ^ (2 - mode))
      ELSE TEXTURE_PAGE_WIDTH

\* GPUTexturePaletteReg: bits 0..5 hold X/16, bits 6..14 hold Y.
GetXBase(palette) == (palette % 64) * 16

GetYBase(palette) == (palette \div 64) % 512

\* GPUTexturePaletteReg::GetWidth(mode): entries of the colour look-up table.
GetWidth(mode) == IF mode = Palette4Bit THEN 16 ELSE 256

(***************************************************************************)
(* LoopPages: the sequence of page numbers the callback f is invoked with, *)
(* in call order.  The inner loop passes page_number; y_page_number is     *)
(* incremented but never read.  x, y, width and height are u32, and so are *)
(* the page coordinates computed from them: width - 1 wraps to 2^32 - 1    *)
(* for a width of 0, and x + (width - 1) wraps back to x - 1 unless x is 0 *)
(* as well.                                                                *)
(***************************************************************************)
\* (a + (b - 1)) / d in u32 arithmetic, for a and b below 2^31 and d a power
\* of two above 1.  The sum is 2^32 - 1 when a and b are both 0; its
\* quotient 2^32 / d - 1 is written 4 * (2^30 / d) - 1 to stay within the
\* integers of the checker.
U32EndPage(a, b, d) ==
    IF a + b = 0 THEN (4 * (1073741824 \div d)) - 1 ELSE ((a + b) - 1) \div d

\* start_x, start_y, end_x and end_y of LoopPages.
LoopPagesExtent(x, y, width, height) ==
    [start_x |-> x \div VRAM_PAGE_WIDTH,
     start_y |-> y \div VRAM_PAGE_HEIGHT,
     end_x |-> U32EndPage(x, width, VRAM_PAGE_WIDTH),
     end_y |-> U32EndPage(y, height, VRAM_PAGE_HEIGHT)]

LoopPagesRow(page_number, start_x, end_x) ==
    [k \in 1 .. (end_x - start_x + 1) |-> page_number]

RECURSIVE LoopPagesRows(_, _, _, _, _)
LoopPagesRows(page_number, page_y, end_y, start_x, end_x) ==
    IF page_y > end_y
      THEN << >>
      ELSE LoopPagesRow(page_number, start_x, end_x)
             \o LoopPagesRows(page_number + VRAM_PAGES_WIDE, page_y + 1, end_y,
                              start_x, end_x)

\* With a width of 0 at x = 0 a row has 2^32 / VRAM_PAGE_WIDTH calls, and
\* with a height of 0 at y = 0 there are 2^32 / VRAM_PAGE_HEIGHT rows.
LoopPages(x, y, width, height) ==
    LET e == LoopPagesExtent(x, y, width, height)
    IN  LoopPagesRows(PageIndex(e.start_x, e.start_y), e.start_y, e.end_y,
                      e.start_x, e.end_x)

\* The number of calls of f LoopPages makes.
LoopPagesCalls(x, y, width, height) ==
    LET e == LoopPagesExtent(x, y, width, height)
        rows == IF e.end_y < e.start_y THEN 0 ELSE (e.end_y - e.start_y) + 1
        cols == IF e.end_x < e.start_x THEN 0 ELSE (e.end_x - e.start_x) + 1
    IN  [rows |-> rows, cols |-> cols]

\* The two DebugAssert conditions at the top of LoopPages.
LoopPagesAsserts(x, y, width, height) ==
    /\ width > 0 /\ height > 0
    /\ (x + width) <= VRAM_WIDTH /\ (y + height) <= VRAM_HEIGHT

(***************************************************************************)
(* Inputs.  A SourceKey is (page, mode, palette bits); operator== compares *)
(* all four bytes.  The keys cover: palette in the pixel page (KeyP4Same), *)
(* a 4-page direct footprint (KeyD16), a two-page 8-bit footprint with a   *)
(* four-page palette on the lower row (KeyP8), and a key on another page   *)
(* whose palette lies in page 0 (KeyP4Far).                                *)
(***************************************************************************)
SourceKey(page, palette, mode) == [page |-> page, mode |-> mode, palette |-> palette]

KeyP4Same == SourceKey(0, 0, Palette4Bit)

KeyD16 == SourceKey(0, 0, Direct16Bit)

KeyP8 == SourceKey(1, 8 + (64 * 256), Palette8Bit)

KeyP4Far == SourceKey(16, 1, Palette4Bit)

Keys == {KeyP4Same, KeyD16, KeyP8, KeyP4Far}

NoKey == [page |-> 255, mode |-> 0, palette |-> 0]

Rect(x, y, w, h) == [x |-> x, y |-> y, w |-> w, h |-> h]

NoRect == Rect(0, 0, 0, 0)

\* Rectangles inside VRAM handed to InvalidatePages: inside one page, over
\* two and over three page columns, over both page rows, and two on the
\* lower row (one over the four pages of KeyP8's palette).
Rects ==
    {Rect(0, 0, 16, 1), Rect(0, 0, 128, 1), Rect(100, 0, 128, 1),
     Rect(0, 0, 16, 512), Rect(100, 256, 16, 1), Rect(128, 256, 256, 1)}

\* Pages handed to InvalidatePage: the pages the keys are listed on (0, 1,
\* 16, 18), a page their footprints reach beyond those (2) and a page no
\* key touches (31).
PageArgs == {0, 1, 2, 16, 18, 31}

(***************************************************************************)
(* State.                                                                  *)
(***************************************************************************)
VARIABLES
    m_page_sources,    \* [Pages -> SourceList]: head and tail node pointers
    heap,              \* [SourceIds -> Source]: the Source objects on the heap
    num_fetched,       \* successful g_gpu_device->FetchTexture calls
    num_recycled,      \* g_gpu_device->RecycleTexture calls
    faults,            \* invalid memory accesses performed so far
    op,                \* the call that produced this state
    ret,               \* value returned by the last LookupSource
    last_src,          \* per key: Source returned by its last lookup, nullptr
                       \*   once a page of the key's footprint was invalidated
    stale,             \* live Sources whose footprint was written after decode
    m_vram_dirty_rect, \* GPU_HW's dirty rectangle
    g_vram,            \* video memory: a background word and the words that differ
    decode_key,        \* (page, palette, mode) last handed to DecodeTexture
    tex_map,           \* what that call left in the texture (see DecodeTextureOutcome),
                       \*   << >> before
    m_batch,                     \* GPU_HW::BatchConfig of the in-flight batch
    m_batch_start_vertex_ptr,    \* mapped vertex region: first vertex, 0 = nullptr
    m_batch_end_vertex_ptr,      \* one past the last vertex of the region
    m_batch_current_vertex_ptr,  \* where the next vertex is written
    m_batch_base_vertex,         \* index of the first vertex of the batch
    m_current_depth,             \* per-primitive depth counter
    m_supports_dual_source_blend,
    batch_rect,        \* bounding rectangle of the in-flight batch's primitives
    batch_cfgs,        \* configurations the in-flight vertices were admitted under
    prim_depth,        \* depth of the last primitive since the last reset
    num_prims,         \* primitives admitted so far
    cmd,               \* what the last GPU_HW command did: draws, flushes, resets
    rect_cmd,          \* rectangle command being loaded: size and texcoord
    rect_tiles,        \* the tiles the rectangle command was split into
    fx_module,         \* what compiling the shader file yields (reshadefx::module)
    m_valid,           \* PostProcessingShaderFX::m_valid
    m_passes,          \* PostProcessingShaderFX::m_passes
    m_textures,        \* PostProcessingShaderFX::m_textures
    m_source_options,  \* PostProcessingShaderFX::m_source_options
    m_options,         \* PostProcessingShader::m_options
    m_uniforms_size,   \* PostProcessingShaderFX::m_uniforms_size
    m_frame_count,     \* PostProcessingShaderFX::m_frame_count
    uniforms,          \* the 32-bit words Apply wrote to the uniform buffer, by byte offset
    fx_stage           \* set-up calls that succeeded: "none", "compiled", "resized"

decode_vars == << g_vram, decode_key, tex_map >>

batch_vars ==
    << m_batch, m_batch_start_vertex_ptr, m_batch_end_vertex_ptr,
       m_batch_current_vertex_ptr, m_batch_base_vertex, m_current_depth,
       m_supports_dual_source_blend, batch_rect, batch_cfgs, prim_depth,
       num_prims, cmd >>

rect_vars == << rect_cmd, rect_tiles >>

fx_vars ==
    << fx_module, m_valid, m_passes, m_textures, m_source_options, m_options,
       m_uniforms_size, m_frame_count, uniforms, fx_stage >>

other_vars == << decode_vars, batch_vars, rect_vars, fx_vars >>

vars ==
    << m_page_sources, heap, num_fetched, num_recycled, faults, op, ret,
       last_src, stale, m_vram_dirty_rect, other_vars >>

SourceList(head, tail) == [head |-> head, tail |-> tail]

SourceListNode(ref, list, prev, next) ==
    [ref |-> ref, list |-> list, prev |-> prev, next |-> next]

ZeroNode == SourceListNode(NULL, 0, NullNode, NullNode)

\* Heap cell that holds no Source (never allocated, or deleted).
FreeCell ==
    [live |-> FALSE, key |-> NoKey, num_page_refs |-> 0,
     page_refs |-> [i \in RefIdx |-> ZeroNode]]

\* new Source(): value-initialised.
NewSource ==
    [live |-> TRUE, key |-> NoKey, num_page_refs |-> 0,
     page_refs |-> [i \in RefIdx |-> ZeroNode]]

\* A call: its name and arguments, whether the device was asked for a texture
\* and what it answered (fetch), the pages InvalidatePage ran on, in order
\* (pages), and the Sources the call deleted (freed).
Op(name, key, rect, pn, fetch, pages, freed) ==
    [name |-> name, key |-> key, rect |-> rect, pn |-> pn, fetch |-> fetch,
     pages |-> pages, freed |-> freed]

\* The cache as one value, threaded through the helpers below.
Cache == [ps |-> m_page_sources, hp |-> heap, faults |-> faults,
          recycled |-> num_recycled]

IsLive(c, s) == s \in SourceIds /\ c.hp[s].live

NodeAt(c, n) == c.hp[n.s].page_refs[n.i]

Fault(c, what) == [c EXCEPT !.faults = @ \cup {what}]

SetNodeNext(c, n, v) ==
    IF IsLive(c, n.s)
      THEN [c EXCEPT !.hp[n.s].page_refs[n.i].next = v]
      ELSE Fault(c, "use_after_free")

SetNodePrev(c, n, v) ==
    IF IsLive(c, n.s)
      THEN [c EXCEPT !.hp[n.s].page_refs[n.i].prev = v]
      ELSE Fault(c, "use_after_free")

(***************************************************************************)
(* ListAppend(list, item, item_node).                                      *)
(***************************************************************************)
\* A LoopPages call whose assertions do not hold is recorded; the loop runs
\* all the same, as it does in a build without assertions.
AssertLoopPages(c, x, y, width, height) ==
    IF LoopPagesAsserts(x, y, width, height) THEN c ELSE Fault(c, "debug_assert")

\* ListAppend leaving item_node->prev null when the list is not empty.
ListAppendNoBackLink(c, list, item, item_node) ==
    LET tail == c.ps[list].tail
        c1 == [c EXCEPT !.hp[item_node.s].page_refs[item_node.i] =
                          SourceListNode(item, list, NullNode, NullNode)]
    IN  IF tail # NullNode
          THEN [SetNodeNext(c1, tail, item_node) EXCEPT !.ps[list].tail = item_node]
          ELSE [c1 EXCEPT !.ps[list] = SourceList(item_node, item_node)]

ListAppend(c, list, item, item_node) ==
    LET tail == c.ps[list].tail
        c1 == [c EXCEPT !.hp[item_node.s].page_refs[item_node.i] =
                          SourceListNode(item, list, @.prev, NullNode)]
    IN  IF tail # NullNode
          THEN LET c2 == [c1 EXCEPT !.hp[item_node.s].page_refs[item_node.i].prev = tail]
                   c3 == SetNodeNext(c2, tail, item_node)
               IN  [c3 EXCEPT !.ps[list].tail = item_node]
          ELSE LET c2 == [c1 EXCEPT !.hp[item_node.s].page_refs[item_node.i].prev = NullNode]
               IN  [c2 EXCEPT !.ps[list] = SourceList(item_node, item_node)]

\* ListUnlink with node.prev->next set to null instead of node.next.
ListUnlinkTruncates(c, n) ==
    LET c1 == IF NodeAt(c, n).prev # NullNode
                THEN SetNodeNext(c, NodeAt(c, n).prev, NullNode)
                ELSE [c EXCEPT !.ps[NodeAt(c, n).list].head = NodeAt(c, n).next]
    IN  IF NodeAt(c1, n).next # NullNode
          THEN SetNodePrev(c1, NodeAt(c1, n).next, NodeAt(c1, n).prev)
          ELSE [c1 EXCEPT !.ps[NodeAt(c1, n).list].tail = NodeAt(c1, n).prev]

(***************************************************************************)
(* ListUnlink(node): node is read through the reference after each write.  *)
(***************************************************************************)
ListUnlink(c, n) ==
    LET c1 == IF NodeAt(c, n).prev # NullNode
                THEN SetNodeNext(c, NodeAt(c, n).prev, NodeAt(c, n).next)
                ELSE [c EXCEPT !.ps[NodeAt(c, n).list].head = NodeAt(c, n).next]
    IN  IF NodeAt(c1, n).next # NullNode
          THEN SetNodePrev(c1, NodeAt(c1, n).next, NodeAt(c1, n).prev)
          ELSE [c1 EXCEPT !.ps[NodeAt(c1, n).list].tail = NodeAt(c1, n).prev]

(***************************************************************************)
(* InvalidatePage(pn).                                                     *)
(***************************************************************************)
\* The unlink loop stopping after page_refs[0].
UnlinkPageRefsFirstOnly(c, src, i) ==
    IF c.hp[src].num_page_refs = 0 THEN c ELSE ListUnlink(c, NodePtr(src, 0))

\* for (i = 0; i < src->num_page_refs; i++) ListUnlink(src->page_refs[i]);
RECURSIVE UnlinkPageRefs(_, _, _)
UnlinkPageRefs(c, src, i) ==
    IF i >= c.hp[src].num_page_refs
      THEN c
      ELSE UnlinkPageRefs(ListUnlink(c, NodePtr(src, i)), src, i + 1)

\* delete src without handing the texture back to the device.
DeleteSourceKeepsTexture(c, src) == [c EXCEPT !.hp[src] = FreeCell]

\* RecycleTexture(std::move(src->texture)); delete src;
DeleteSource(c, src) ==
    [c EXCEPT !.hp[src] = FreeCell, !.recycled = @ + 1]

\* The body of the for loop, from node n on.  Reading a node of a Source
\* that was already deleted is recorded as a fault and ends the walk.
RECURSIVE InvalidateFrom(_, _)
InvalidateFrom(c, n) ==
    IF n = NullNode
      THEN c
      ELSE IF ~IsLive(c, n.s) \/ ~IsLive(c, NodeAt(c, n).ref)
        THEN Fault(c, "use_after_free")
        ELSE LET src == NodeAt(c, n).ref
                 next == NodeAt(c, n).next
             IN  InvalidateFrom(DeleteSource(UnlinkPageRefs(c, src, 0), src), next)

\* InvalidatePage that frees the Source at the head of the list and returns.
InvalidatePageHeadOnly(c, pn) ==
    LET n == c.ps[pn].head
    IN  IF n = NullNode
          THEN c
          ELSE LET src == NodeAt(c, n).ref
               IN  DeleteSource(UnlinkPageRefs(c, src, 0), src)

InvalidatePage(c, pn) ==
    LET c1 == InvalidateFrom(c, c.ps[pn].head)
    IN  [c1 EXCEPT !.ps[pn] = SourceList(NullNode, NullNode)]

\* InvalidatePage applied to each page of a sequence, in order.
RECURSIVE InvalidateEach(_, _)
InvalidateEach(c, pns) ==
    IF pns = << >>
      THEN c
      ELSE LET c1 == InvalidatePage(c, Head(pns))
           IN  IF c1.recycled >= c.recycled THEN InvalidateEach(c1, Tail(pns)) ELSE c1

InvalidatePages(c, x, y, width, height) ==
    InvalidateEach(AssertLoopPages(c, x, y, width, height), LoopPages(x, y, width, height))

\* for (i = 0; i < NUM_PAGES; i++) InvalidatePage(i);
ClearPages == [i \in 1 .. NUM_PAGES |-> i - 1]

\* Iteration i finishes (c1 is evaluated) before iteration i + 1 starts.
RECURSIVE ClearFrom(_, _)
ClearFrom(c, i) ==
    IF i >= NUM_PAGES
      THEN c
      ELSE LET c1 == InvalidatePage(c, i)
           IN  IF c1.recycled >= c.recycled THEN ClearFrom(c1, i + 1) ELSE c1

\* Clear with its loop starting at page 1.
ClearSkipsFirst(c) == ClearFrom(c, 1)

Clear(c) == ClearFrom(c, 0)

(***************************************************************************)
(* Texture decoding.  Video memory is a row-major array of VRAM_WIDTH *    *)
(* VRAM_HEIGHT 16-bit words; g_vram keeps the word most addresses hold     *)
(* (bg) and the words that differ (cells).  An access past the end of an   *)
(* array or of a mapped buffer is undefined, and what lies there is not    *)
(* the program's to say.  Either the memory is not mapped and the access   *)
(* ends the process, or it is: a read then yields whatever the address     *)
(* holds (Indeterminate), a write lands there and the program goes on.     *)
(* A texel is the four bytes of the u32 written to the texture, in memory  *)
(* order.                                                                  *)
(***************************************************************************)
\* No memory mapped at the address: the access ends the process.
Unmapped == "unmapped"

\* Memory mapped at the address, holding other data of the process.
Mapped == "mapped"

\* What an access past the end may find.
Beyonds == {Unmapped, Mapped}

\* The word a read of g_vram[a] yields, if it yields one.
VRAMRead(v, a) ==
    IF a >= VRAM_WIDTH * VRAM_HEIGHT
      THEN Indeterminate
      ELSE IF a \in DOMAIN v.cells THEN v.cells[a] ELSE v.bg

RGBA(r, g, b, a) == [r |-> r, g |-> g, b |-> b, a |-> a]

\* Five bits widened to eight.
E5TO8(c) == ((c * 527) + 23) \div 64

\* VRAMRGBA5551ToRGBA8888: red in bits 0..4, green 5..9, blue 10..14, and the
\* mask bit 15 as alpha 0 or 255.  Of a word that may be any, each byte may
\* be any.
VRAMRGBA5551ToRGBA8888(color) ==
    IF color = Indeterminate
      THEN RGBA(Indeterminate, Indeterminate, Indeterminate, Indeterminate)
      ELSE RGBA(E5TO8(color % 32), E5TO8((color \div 32) % 32),
                E5TO8((color \div 1024) % 32), IF color \div 32768 # 0 THEN 255 ELSE 0)

\* palette[index], the index being field j (entries values wide) of the page
\* word pp.  An index taken from a word that may be any selects any entry.
PaletteRead(v, palette, pp, entries, j) ==
    IF pp = Indeterminate
      THEN Indeterminate
      ELSE VRAMRead(v, palette + ((pp \div (entries ^ j)) % entries))

\* The palette indexes the fields of the page word pp select.
PaletteIndexes(pp, entries, fields) ==
    IF pp = Indeterminate
      THEN 0 .. (entries - 1)
      ELSE {(pp \div (entries ^ j)) % entries : j \in 0 .. (fields - 1)}

\* Index into g_vram of the first word of page pn.
VRAMPagePointer(pn) == (PageStartY(pn) * VRAM_WIDTH) + PageStartX(pn)

TexRows == 0 .. (TEXTURE_PAGE_HEIGHT - 1)

TexCols == 0 .. (TEXTURE_PAGE_WIDTH - 1)

\* DecodeTexture4 taking the high nibble of each word first.
DecodeTexture4HighNibbleFirst(v, page, palette) ==
    [y \in TexRows |-> [x \in TexCols |->
        LET pp == VRAMRead(v, page + (y * VRAM_WIDTH) + (x \div 4))
        IN  VRAMRGBA5551ToRGBA8888(PaletteRead(v, palette, pp, 16, 3 - (x % 4)))]]

\* Four texels per word, low nibble first; rows are VRAM_WIDTH words apart.
DecodeTexture4(v, page, palette) ==
    [y \in TexRows |-> [x \in TexCols |->
        LET pp == VRAMRead(v, page + (y * VRAM_WIDTH) + (x \div 4))
        IN  VRAMRGBA5551ToRGBA8888(PaletteRead(v, palette, pp, 16, x % 4))]]

\* Two texels per word, low byte first.
DecodeTexture8(v, page, palette) ==
    [y \in TexRows |-> [x \in TexCols |->
        LET pp == VRAMRead(v, page + (y * VRAM_WIDTH) + (x \div 2))
        IN  VRAMRGBA5551ToRGBA8888(PaletteRead(v, palette, pp, 256, x % 2))]]

DecodeTexture16(v, page) ==
    [y \in TexRows |-> [x \in TexCols |->
        VRAMRGBA5551ToRGBA8888(VRAMRead(v, page + (y * VRAM_WIDTH) + x))]]

\* The words of g_vram the decoders read in each iteration of their loops:
\* the address of each, and the address of the first word of the row (of
\* the page, or of the palette) being read.
VRAMReadAt(a, row) == [a |-> a, row |-> row]

DecodeTexture4Reads(v, page, palette) ==
    [y \in TexRows |-> [x \in 0 .. ((TEXTURE_PAGE_WIDTH \div 4) - 1) |->
        LET pp == VRAMRead(v, page + (y * VRAM_WIDTH) + x)
        IN  {VRAMReadAt(page + (y * VRAM_WIDTH) + x, page + (y * VRAM_WIDTH))}
              \cup {VRAMReadAt(palette + i, palette) : i \in PaletteIndexes(pp, 16, 4)}]]

DecodeTexture8Reads(v, page, palette) ==
    [y \in TexRows |-> [x \in 0 .. ((TEXTURE_PAGE_WIDTH \div 2) - 1) |->
        LET pp == VRAMRead(v, page + (y * VRAM_WIDTH) + x)
        IN  {VRAMReadAt(page + (y * VRAM_WIDTH) + x, page + (y * VRAM_WIDTH))}
              \cup {VRAMReadAt(palette + i, palette) : i \in PaletteIndexes(pp, 256, 2)}]]

DecodeTexture16Reads(v, page) ==
    [y \in TexRows |-> [x \in 0 .. (TEXTURE_PAGE_WIDTH - 1) |->
        {VRAMReadAt(page + (y * VRAM_WIDTH) + x, page + (y * VRAM_WIDTH))}]]

\* Per loop iteration (row y, word x of the row), the words read.
DecodeTextureReads(v, page, palette, mode) ==
    LET page_ptr == VRAMPagePointer(page)
        palette_ptr == (GetYBase(palette) * VRAM_WIDTH) + GetXBase(palette)
    IN  CASE mode = Palette4Bit -> DecodeTexture4Reads(v, page_ptr, palette_ptr)
          [] mode = Palette8Bit -> DecodeTexture8Reads(v, page_ptr, palette_ptr)
          [] OTHER -> DecodeTexture16Reads(v, page_ptr)

\* The dispatch with the palette taken from the start of its row.
DecodeTextureNoPaletteX(v, page, palette, mode) ==
    LET page_ptr == VRAMPagePointer(page)
        palette_ptr == GetYBase(palette) * VRAM_WIDTH
    IN  CASE mode = Palette4Bit -> DecodeTexture4(v, page_ptr, palette_ptr)
          [] mode = Palette8Bit -> DecodeTexture8(v, page_ptr, palette_ptr)
          [] OTHER -> DecodeTexture16(v, page_ptr)

DecodeTexture(v, page, palette, mode) ==
    LET page_ptr == VRAMPagePointer(page)
        palette_ptr == (GetYBase(palette) * VRAM_WIDTH) + GetXBase(palette)
    IN  CASE mode = Palette4Bit -> DecodeTexture4(v, page_ptr, palette_ptr)
          [] mode = Palette8Bit -> DecodeTexture8(v, page_ptr, palette_ptr)
          [] OTHER -> DecodeTexture16(v, page_ptr)

\* The words VRAMRead yields over the addresses first .. last: the cells
\* among them, bg if one of them inside the array is not a cell, and
\* Indeterminate if one of them lies past the end.
VRAMWords(v, first, last) ==
    LET size == VRAM_WIDTH * VRAM_HEIGHT
        last_inside == IF last < size THEN last ELSE size - 1
        cells_inside == {a \in DOMAIN v.cells : first <= a /\ a <= last_inside}
    IN  {v.cells[a] : a \in cells_inside}
          \cup (IF Cardinality(cells_inside) < (last_inside - first) + 1 THEN {v.bg} ELSE {})
          \cup {VRAMRead(v, a) : a \in (IF first < size THEN size ELSE first) .. last}

\* Whether DecodeTexture reads a word past the end of g_vram.  The page
\* words are read in increasing address order, so one of them lies past the
\* end exactly if the last one does; a palette entry can lie past the end
\* only if the last entry of the palette does, and one that does is read if
\* a word of the page selects it.
DecodeTextureReadsBeyond(v, page, palette, mode) ==
    LET size == VRAM_WIDTH * VRAM_HEIGHT
        page_ptr == VRAMPagePointer(page)
        palette_ptr == (GetYBase(palette) * VRAM_WIDTH) + GetXBase(palette)
        words == WidthForMode(mode)
        entries == GetWidth(mode)
    IN  \/ page_ptr + ((TEXTURE_PAGE_HEIGHT - 1) * VRAM_WIDTH) + (words - 1) >= size
        \/ /\ mode < Direct16Bit
           /\ palette_ptr + (entries - 1) >= size
           /\ \E y \in TexRows :
                 \E pp \in VRAMWords(v, page_ptr + (y * VRAM_WIDTH),
                                     page_ptr + (y * VRAM_WIDTH) + (words - 1)) :
                    \E j \in 0 .. ((TEXTURE_PAGE_WIDTH \div words) - 1) :
                       palette_ptr + ((pp \div (entries ^ j)) % entries) >= size

\* What a DecodeTexture(key.page, key.palette, key.mode, texture) call does,
\* with after what its reads past the end of g_vram find, if it makes any:
\* whether it returns (a read of unmapped memory ends the process), what it
\* leaves in the texture, and the invalid accesses it makes.  The texels
\* are the same whether they are written through the mapped texture or,
\* when Map fails, to s_temp_buffer and from there by Update.  The texture
\* is kept as the arguments and the video memory of the call; Texels gives
\* its 256x256 texels.
DecodeTextureOutcome(v, key, after) ==
    LET beyond == DecodeTextureReadsBeyond(v, key.page, key.palette, key.mode)
    IN  IF ~beyond
          THEN [returns |-> TRUE, faults |-> {},
                tex |-> [vram |-> v, page |-> key.page, palette |-> key.palette,
                         mode |-> key.mode]]
          ELSE IF after = Mapped
            THEN [returns |-> TRUE, faults |-> {"vram_read_out_of_bounds"},
                  tex |-> [vram |-> v, page |-> key.page, palette |-> key.palette,
                           mode |-> key.mode]]
            ELSE [returns |-> FALSE, faults |-> {"vram_read_out_of_bounds", "segfault"},
                  tex |-> << >>]

Texels(tex) ==
    IF tex = << >> THEN << >> ELSE DecodeTexture(tex.vram, tex.page, tex.palette, tex.mode)

(***************************************************************************)
(* CreateSource(key): FetchTexture, DecodeTexture, new Source() and the    *)
(* page references.                                                        *)
(***************************************************************************)
\* add_page_ref without the scan of page_refns for a page already referenced.
AddPageRefNoDedup(cs, src, pn) ==
    LET n == cs.c.hp[src].num_page_refs
    IN  IF n >= MAX_PAGE_REFS_PER_SOURCE
          THEN [cs EXCEPT !.c = Fault(@, "page_refs_overflow")]
          ELSE IF pn \notin Pages
            THEN [cs EXCEPT !.c = Fault(@, "page_out_of_range")]
            ELSE LET c1 == [cs.c EXCEPT !.hp[src].num_page_refs = n + 1]
                 IN  [c |-> ListAppend(c1, pn, src, NodePtr(src, n)),
                      refns |-> [cs.refns EXCEPT ![n] = pn]]

\* add_page_ref comparing pn with page_refns[0] only.
AddPageRefChecksFirstOnly(cs, src, pn) ==
    LET n == cs.c.hp[src].num_page_refs
    IN  IF n > 0 /\ cs.refns[0] = pn
          THEN cs
          ELSE IF n >= MAX_PAGE_REFS_PER_SOURCE
            THEN [cs EXCEPT !.c = Fault(@, "page_refs_overflow")]
            ELSE IF pn \notin Pages
              THEN [cs EXCEPT !.c = Fault(@, "page_out_of_range")]
              ELSE LET c1 == [cs.c EXCEPT !.hp[src].num_page_refs = n + 1]
                   IN  [c |-> ListAppend(c1, pn, src, NodePtr(src, n)),
                        refns |-> [cs.refns EXCEPT ![n] = pn]]

\* The add_page_ref lambda.  cs carries the cache and the local page_refns.
AddPageRef(cs, src, pn) ==
    LET n == cs.c.hp[src].num_page_refs
    IN  IF \E i \in 0 .. (n - 1) : cs.refns[i] = pn
          THEN cs
          ELSE IF n >= MAX_PAGE_REFS_PER_SOURCE
            THEN [cs EXCEPT !.c = Fault(@, "page_refs_overflow")]
            ELSE IF pn \notin Pages
              THEN [cs EXCEPT !.c = Fault(@, "page_out_of_range")]
              ELSE LET c1 == [cs.c EXCEPT !.hp[src].num_page_refs = n + 1]
                   IN  [c |-> ListAppend(c1, pn, src, NodePtr(src, n)),
                        refns |-> [cs.refns EXCEPT ![n] = pn]]

RECURSIVE AddPageRefs(_, _, _)
AddPageRefs(cs, src, pns) ==
    IF pns = << >>
      THEN cs
      ELSE AddPageRefs(AddPageRef(cs, src, Head(pns)), src, Tail(pns))

\* The pixel-data LoopPages call left out for keys that have a palette.
SourcePageCallsPaletteOnly(key) ==
    IF key.mode < Direct16Bit
      THEN LoopPages(GetXBase(key.palette), GetYBase(key.palette), GetWidth(key.mode), 1)
      ELSE LoopPages(PageStartX(key.page), PageStartY(key.page), WidthForMode(key.mode),
                     TEXTURE_PAGE_HEIGHT)

\* Pages handed to add_page_ref: the pixel data, then the palette.
SourcePageCalls(key) ==
    LoopPages(PageStartX(key.page), PageStartY(key.page), WidthForMode(key.mode),
              TEXTURE_PAGE_HEIGHT)
      \o (IF key.mode < Direct16Bit
            THEN LoopPages(GetXBase(key.palette), GetYBase(key.palette),
                           GetWidth(key.mode), 1)
            ELSE << >>)

\* The assertions of the LoopPages calls CreateSource makes for key.
SourcePageAsserts(c, key) ==
    LET c1 == AssertLoopPages(c, PageStartX(key.page), PageStartY(key.page),
                              WidthForMode(key.mode), TEXTURE_PAGE_HEIGHT)
    IN  IF key.mode < Direct16Bit
          THEN AssertLoopPages(c1, GetXBase(key.palette), GetYBase(key.palette),
                               GetWidth(key.mode), 1)
          ELSE c1

\* What CreateSource and LookupSource yield: the cache afterwards, the
\* pointer returned, whether DecodeTexture was called and what it left in
\* the texture.
Made(c, r, decoded, tex) == [c |-> c, ret |-> r, decoded |-> decoded, tex |-> tex]

\* The part of CreateSource after DecodeTexture: nothing if it did not
\* return, else new Source() and the page references.
CreateSourceDecoded(c, key, src, d) ==
    LET cd == [c EXCEPT !.faults = @ \cup d.faults]
        c1 == [cd EXCEPT !.hp[src] = [NewSource EXCEPT !.key = key]]
        cs == [c |-> c1, refns |-> [i \in RefIdx |-> NUM_PAGES]]
    IN  IF ~d.returns
          THEN Made(cd, NULL, TRUE, d.tex)
          ELSE Made(SourcePageAsserts(AddPageRefs(cs, src, SourcePageCalls(key)).c, key),
                    src, TRUE, d.tex)

\* CreateSource without the early return on a null texture.
CreateSourceIgnoresFailure(c, key, src, tex_ok, after) ==
    CreateSourceDecoded(c, key, src, DecodeTextureOutcome(g_vram, key, after))

\* tex_ok: FetchTexture returned a texture.  src: the address new Source()
\* returns.  after: what a read past the end of g_vram finds.  The texture
\* is decoded from g_vram before the Source is made.
CreateSource(c, key, src, tex_ok, after) ==
    IF ~tex_ok
      THEN Made(c, NULL, FALSE, << >>)
      ELSE CreateSourceDecoded(c, key, src, DecodeTextureOutcome(g_vram, key, after))

(***************************************************************************)
(* LookupSource(key): the scan of m_page_sources[key.page].                *)
(***************************************************************************)
\* SourceKey::operator== with the palette register left out of the comparison.
KeyEqualsIgnoresPalette(a, b) == a.page = b.page /\ a.mode = b.mode

\* SourceKey::operator==: memcmp over the four bytes page, mode, palette.
KeyEquals(a, b) == a.page = b.page /\ a.mode = b.mode /\ a.palette = b.palette

\* The scan giving up after the first node of the list.
ScanListHeadOnly(c, n, key) ==
    IF n = NullNode
      THEN [src |-> NULL, fault |-> FALSE]
      ELSE IF ~IsLive(c, n.s) \/ ~IsLive(c, NodeAt(c, n).ref)
        THEN [src |-> NULL, fault |-> TRUE]
        ELSE IF KeyEquals(c.hp[NodeAt(c, n).ref].key, key)
          THEN [src |-> NodeAt(c, n).ref, fault |-> FALSE]
          ELSE [src |-> NULL, fault |-> FALSE]

RECURSIVE ScanList(_, _, _)
ScanList(c, n, key) ==
    IF n = NullNode
      THEN [src |-> NULL, fault |-> FALSE]
      ELSE IF ~IsLive(c, n.s) \/ ~IsLive(c, NodeAt(c, n).ref)
        THEN [src |-> NULL, fault |-> TRUE]
        ELSE IF KeyEquals(c.hp[NodeAt(c, n).ref].key, key)
          THEN [src |-> NodeAt(c, n).ref, fault |-> FALSE]
          ELSE ScanList(c, NodeAt(c, n).next, key)

\* The scan starting at the tail of the list instead of its head.
FindSourceFromTail(c, key) == ScanList(c, c.ps[key.page].tail, key)

FindSource(c, key) == ScanList(c, c.ps[key.page].head, key)

(***************************************************************************)
(* Footprints, as geometry: the pages a rectangle intersects, and the      *)
(* pixel-data and palette rectangles of a key.                             *)
(***************************************************************************)
CoveringPages(x, y, w, h) ==
    {PageIndex(px, py) :
        px \in (x \div VRAM_PAGE_WIDTH) .. ((x + w - 1) \div VRAM_PAGE_WIDTH),
        py \in (y \div VRAM_PAGE_HEIGHT) .. ((y + h - 1) \div VRAM_PAGE_HEIGHT)}

RectPages(r) == CoveringPages(r.x, r.y, r.w, r.h)

PixelRect(key) ==
    Rect(PageStartX(key.page), PageStartY(key.page), WidthForMode(key.mode),
         TEXTURE_PAGE_HEIGHT)

PaletteRect(key) ==
    Rect(GetXBase(key.palette), GetYBase(key.palette), GetWidth(key.mode), 1)

FootprintRects(key) ==
    IF key.mode < Direct16Bit THEN {PixelRect(key), PaletteRect(key)} ELSE {PixelRect(key)}

FootprintPages(key) == UNION {RectPages(r) : r \in FootprintRects(key)}

RectsIntersect(a, b) ==
    /\ a.x < b.x + b.w
    /\ b.x < a.x + a.w
    /\ a.y < b.y + b.h
    /\ b.y < a.y + a.h

SeqToSet(q) == {q[k] : k \in DOMAIN q}

LiveSources == {s \in SourceIds : heap[s].live}

(***************************************************************************)
(* Initial state: a constructed, empty cache; an invalid dirty rectangle.  *)
(***************************************************************************)
InvalidRect == [left |-> VRAM_WIDTH, top |-> VRAM_HEIGHT, right |-> 0, bottom |-> 0]

\* Video memory zero-filled, nothing decoded.
DecodeIdle ==
    /\ g_vram = [bg |-> 0, cells |-> << >>]
    /\ decode_key = NoKey
    /\ tex_map = << >>

(***************************************************************************)
(* GPU_HW batch state.                                                     *)
(***************************************************************************)
\* GPUTextureMode and GPUTransparencyMode values next to the four texture
\* modes above: the register values, then Disabled.
GPUTextureMode_Disabled == 4

HalfBackgroundPlusHalfForeground == 0

BackgroundPlusForeground == 1

BackgroundMinusForeground == 2

BackgroundPlusQuarterForeground == 3

GPUTransparencyMode_Disabled == 4

\* GPU_HW::BatchRenderMode.
TransparencyDisabled == 0

TransparentAndOpaque == 1

OnlyOpaque == 2

OnlyTransparent == 3

MAX_BATCH_VERTEX_COUNTER_IDS == 65536 - 2

BatchConfig(texture_mode, transparency_mode, dithering, interlacing, set_mask_while_drawing, check_mask_before_draw, use_depth_buffer) ==
    [texture_mode |-> texture_mode, transparency_mode |-> transparency_mode,
     dithering |-> dithering, interlacing |-> interlacing,
     set_mask_while_drawing |-> set_mask_while_drawing,
     check_mask_before_draw |-> check_mask_before_draw,
     use_depth_buffer |-> use_depth_buffer]

\* The member initialisers of BatchConfig.
DefaultBatchConfig ==
    BatchConfig(GPUTextureMode_Disabled, GPUTransparencyMode_Disabled,
                FALSE, FALSE, FALSE, FALSE, FALSE)

\* No primitive drawn since the last reset of the depth counter.
NoDepth == 0 - 1

NoCmd == [name |-> "none", draws |-> << >>, flushes |-> 0, resets |-> 0,
          writes |-> << >>, required |-> 0]

\* The member initialisers of GPU_HW; a device without dual-source blend.
BatchIdle ==
    /\ m_batch = DefaultBatchConfig
    /\ m_batch_start_vertex_ptr = NULL
    /\ m_batch_end_vertex_ptr = NULL
    /\ m_batch_current_vertex_ptr = NULL
    /\ m_batch_base_vertex = 0
    /\ m_current_depth = 0
    /\ m_supports_dual_source_blend = FALSE
    /\ batch_rect = InvalidRect
    /\ batch_cfgs = {}
    /\ prim_depth = NoDepth
    /\ num_prims = 0
    /\ cmd = NoCmd

\* No rectangle command loaded.
NoRectCmd == [width |-> 0, height |-> 0, u |-> 0, v |-> 0]

RectIdle ==
    /\ rect_cmd = NoRectCmd
    /\ rect_tiles = << >>

\* No file named yet: m_filename is empty and nothing can be compiled.
NoModule ==
    [textures |-> << >>, techniques |-> 0, passes |-> << >>, uniforms |-> << >>,
     total_uniform_size |-> 0]

\* The member initialisers of PostProcessingShaderFX.
FxIdle ==
    /\ fx_module = NoModule
    /\ m_valid = FALSE
    /\ m_passes = << >>
    /\ m_textures = << >>
    /\ m_source_options = << >>
    /\ m_options = << >>
    /\ m_uniforms_size = 0
    /\ m_frame_count = 0
    /\ uniforms = << >>
    /\ fx_stage = "none"

OtherInit == DecodeIdle /\ BatchIdle /\ RectIdle /\ FxIdle

Init ==
    /\ m_page_sources = [p \in Pages |-> SourceList(NullNode, NullNode)]
    /\ heap = [s \in SourceIds |-> FreeCell]
    /\ num_fetched = 0
    /\ num_recycled = 0
    /\ faults = {}
    /\ op = Op("Init", NoKey, NoRect, 0, "none", << >>, {})
    /\ ret = NULL
    /\ last_src = [k \in Keys |-> NULL]
    /\ stale = {}
    /\ m_vram_dirty_rect = InvalidRect
    /\ OtherInit

Commit(c) ==
    /\ m_page_sources' = c.ps
    /\ heap' = c.hp
    /\ faults' = c.faults
    /\ num_recycled' = c.recycled

\* last_src after InvalidatePage ran on the pages ps.
ForgetTouched(ps) ==
    [k \in DOMAIN last_src |-> IF FootprintPages(k) \cap ps # {} THEN NULL ELSE last_src[k]]

(***************************************************************************)
(* Operations of GPUTextureCache.                                          *)
(***************************************************************************)
\* The process has not been ended by an access to unmapped memory.
Running == "segfault" \notin faults

\* What the reads of a DecodeTexture call for key may find past the end of
\* g_vram; a call that stays inside the array finds nothing of it.
DecodeTextureBeyonds(key) ==
    IF DecodeTextureReadsBeyond(g_vram, key.page, key.palette, key.mode)
      THEN Beyonds
      ELSE {Mapped}

\* fetch_ok: whether the device supplies a texture if it is asked for one.
\* Source objects are never handed out twice: the next one is num_fetched + 1.
LookupSource(key, fetch_ok) ==
    LET r == FindSource(Cache, key)
        hit == ~r.fault /\ r.src # NULL
        asked == ~r.fault /\ ~hit
    IN  /\ Running
        /\ (asked /\ fetch_ok) => num_fetched < MaxSources
        /\ \E after \in (IF asked /\ fetch_ok THEN DecodeTextureBeyonds(key) ELSE {Mapped}) :
              LET made == IF r.fault
                            THEN Made(Fault(Cache, "use_after_free"), NULL, FALSE, << >>)
                            ELSE IF hit
                              THEN Made(Cache, r.src, FALSE, << >>)
                              ELSE CreateSource(Cache, key, num_fetched + 1, fetch_ok, after)
              IN  /\ Commit(made.c)
                  /\ ret' = made.ret
                  /\ last_src' = [last_src EXCEPT ![key] = made.ret]
                  /\ decode_key' = IF made.decoded THEN key ELSE decode_key
                  /\ tex_map' = IF made.decoded THEN made.tex ELSE tex_map
        /\ num_fetched' = IF asked /\ fetch_ok THEN num_fetched + 1 ELSE num_fetched
        /\ op' = Op("LookupSource", key, NoRect, 0,
                    IF ~asked THEN "none" ELSE IF fetch_ok THEN "ok" ELSE "failed",
                    << >>, {})
        /\ UNCHANGED << stale, m_vram_dirty_rect, g_vram, batch_vars, rect_vars, fx_vars >>

\* Sources deleted on the way from the current cache to c.
Freed(c) == {s \in LiveSources : ~c.hp[s].live}

InvalidatePageCall(pn) ==
    LET c == InvalidatePage(Cache, pn)
    IN  /\ Running
        /\ Commit(c)
        /\ op' = Op("InvalidatePage", NoKey, NoRect, pn, "none", << pn >>, Freed(c))
        /\ last_src' = ForgetTouched({pn})
        /\ UNCHANGED << num_fetched, ret, stale, m_vram_dirty_rect, other_vars >>

InvalidatePagesCall(r) ==
    LET c == InvalidatePages(Cache, r.x, r.y, r.w, r.h)
        pns == LoopPages(r.x, r.y, r.w, r.h)
    IN  /\ Running
        /\ Commit(c)
        /\ op' = Op("InvalidatePages", NoKey, r, 0, "none", pns, Freed(c))
        /\ last_src' = ForgetTouched(SeqToSet(pns))
        /\ UNCHANGED << num_fetched, ret, stale, m_vram_dirty_rect, other_vars >>

ClearCall ==
    LET c == Clear(Cache)
    IN  /\ Running
        /\ Commit(c)
        /\ op' = Op("Clear", NoKey, NoRect, 0, "none", ClearPages, Freed(c))
        /\ last_src' = ForgetTouched(Pages)
        /\ UNCHANGED << num_fetched, ret, stale, m_vram_dirty_rect, other_vars >>

Next ==
    \/ \E key \in Keys, fetch_ok \in BOOLEAN : LookupSource(key, fetch_ok)
    \/ \E pn \in PageArgs : InvalidatePageCall(pn)
    \/ \E r \in Rects : InvalidatePagesCall(r)
    \/ ClearCall

Spec == Init /\ [][Next]_vars

(***************************************************************************)
(* One lookup in a freshly constructed cache, for any key: every page, every *)
(* mode, every palette X base and the palette Y bases at the edges of the  *)
(* two page rows.                                                          *)
(***************************************************************************)
PaletteYBases == {0, 255, 256, 511}

AllPalettes == {xb + (64 * yb) : xb \in 0 .. 63, yb \in PaletteYBases}

AllModes == {Palette4Bit, Palette8Bit, Direct16Bit, Reserved_Direct16Bit}

AllKeys == {SourceKey(p, pal, m) : p \in Pages, pal \in AllPalettes, m \in AllModes}

InitKeys ==
    \E key \in AllKeys :
        /\ m_page_sources = [p \in Pages |-> SourceList(NullNode, NullNode)]
        /\ heap = [s \in SourceIds |-> FreeCell]
        /\ num_fetched = 0
        /\ num_recycled = 0
        /\ faults = {}
        /\ op = Op("Init", key, NoRect, 0, "none", << >>, {})
        /\ ret = NULL
        /\ last_src = [k \in Keys \cup {key} |-> NULL]
        /\ stale = {}
        /\ m_vram_dirty_rect = InvalidRect
        /\ g_vram = [bg |-> 0, cells |-> << >>]
        /\ decode_key = NoKey
        /\ tex_map = << >>
        /\ BatchIdle
        /\ RectIdle
        /\ FxIdle

NextKeys == op.name = "Init" /\ LookupSource(op.key, TRUE)

SpecKeys == InitKeys /\ [][NextKeys]_vars

\* Keys of page 0 that differ in the palette register alone, which a direct
\* mode does not use, or in Direct16Bit against Reserved_Direct16Bit alone.
DirectKeys ==
    {SourceKey(0, 0, Direct16Bit), SourceKey(0, 1, Direct16Bit),
     SourceKey(0, 0, Reserved_Direct16Bit)}

InitDirect ==
    /\ m_page_sources = [p \in Pages |-> SourceList(NullNode, NullNode)]
    /\ heap = [s \in SourceIds |-> FreeCell]
    /\ num_fetched = 0
    /\ num_recycled = 0
    /\ faults = {}
    /\ op = Op("Init", NoKey, NoRect, 0, "none", << >>, {})
    /\ ret = NULL
    /\ last_src = [k \in Keys \cup DirectKeys |-> NULL]
    /\ stale = {}
    /\ m_vram_dirty_rect = InvalidRect
    /\ OtherInit

NextDirect ==
    \/ \E key \in DirectKeys : LookupSource(key, TRUE)
    \/ \E pn \in {0, 1, 3} : InvalidatePageCall(pn)
    \/ InvalidatePagesCall(Rect(100, 0, 128, 1))
    \/ ClearCall

SpecDirect == InitDirect /\ [][NextDirect]_vars

(***************************************************************************)
(* GPU_HW: the operations that write video memory.  Each one invalidates   *)
(* the texture-cache pages of the written rectangle and grows the dirty    *)
(* rectangle by it, before it returns.                                     *)
(***************************************************************************)
\* The dirty rectangle set to the written rectangle, not grown by it.
SetVRAMDirtyRectangle(d, r) ==
    [left |-> r.x, top |-> r.y, right |-> r.x + r.w, bottom |-> r.y + r.h]

\* IncludeVRAMDirtyRectangle(rect): bounding union.
IncludeVRAMDirtyRectangle(d, r) ==
    [left |-> IF r.x < d.left THEN r.x ELSE d.left,
     top |-> IF r.y < d.top THEN r.y ELSE d.top,
     right |-> IF r.x + r.w > d.right THEN r.x + r.w ELSE d.right,
     bottom |-> IF r.y + r.h > d.bottom THEN r.y + r.h ELSE d.bottom]

\* Whether a write to rectangle r changes words the Source s was decoded from.
Overwrites(r, key) == \E f \in FootprintRects(key) : RectsIntersect(f, r)

WriteVRAM(name, r) ==
    LET c == InvalidatePages(Cache, r.x, r.y, r.w, r.h)
        pns == LoopPages(r.x, r.y, r.w, r.h)
    IN  /\ Running
        /\ Commit(c)
        /\ m_vram_dirty_rect' = IncludeVRAMDirtyRectangle(m_vram_dirty_rect, r)
        /\ stale' = {s \in SourceIds :
                        c.hp[s].live /\ (s \in stale \/ Overwrites(r, c.hp[s].key))}
        /\ op' = Op(name, NoKey, r, 0, "none", pns, Freed(c))
        /\ last_src' = ForgetTouched(SeqToSet(pns))
        /\ UNCHANGED << num_fetched, ret, other_vars >>

FillVRAM(r) == WriteVRAM("FillVRAM", r)

UpdateVRAM(r) == WriteVRAM("UpdateVRAM", r)

\* The destination rectangle is the one written.
CopyVRAM(src_x, src_y, dst) == WriteVRAM("CopyVRAM", dst)

\* A flush that draws the batch's vertices into the rectangle r.
FlushRender(r) == WriteVRAM("FlushRender", r)

\* Written rectangles: the first words of page 0 (pixels of the keys on page
\* 0 and the palette stored there) and a strip over pages 1..3 (pixels of the
\* direct and of the 8-bit key).
WriteRects == {Rect(0, 0, 16, 1), Rect(100, 0, 128, 1)}

(***************************************************************************)
(* GPU_HW: the batch renderer.  A command works on h, the renderer's state *)
(* with the texture cache c, and adds what it did to h.draws (the          *)
(* DrawBatchVertices calls), h.flushes, h.resets and h.writes (rectangles  *)
(* of video memory written).  Vertex pointers are addresses of BatchVertex *)
(* slots; the mapped region starts at VertexBufferStart.                   *)
(***************************************************************************)
MaxVertexSpace == 8

MaxPrims == 3

VertexBufferStart == 1

HWState ==
    [batch |-> m_batch, start |-> m_batch_start_vertex_ptr,
     end |-> m_batch_end_vertex_ptr, cur |-> m_batch_current_vertex_ptr,
     base |-> m_batch_base_vertex, depth |-> m_current_depth,
     dual |-> m_supports_dual_source_blend, rect |-> batch_rect,
     cfgs |-> batch_cfgs, pdepth |-> prim_depth, dirty |-> m_vram_dirty_rect,
     c |-> Cache, draws |-> << >>, flushes |-> 0, resets |-> 0, writes |-> << >>,
     required |-> 0, after |-> Mapped]

IsFlushed(h) == h.cur = h.start

\* static_cast<u32>(d): d modulo 2^32, as its high and low 16 bits.
U32(d) == [hi |-> (d \div 65536) % 65536, lo |-> d % 65536]

\* a >= b of two u32.
U32GreaterEq(a, b) == a.hi > b.hi \/ (a.hi = b.hi /\ a.lo >= b.lo)

\* The space left measured from the start of the region.
GetBatchVertexSpaceFromStart(h) == U32(h.end - h.start)

GetBatchVertexSpace(h) == U32(h.end - h.cur)

GetBatchVertexCount(h) == U32(h.cur - h.start)

\* BatchConfig::GetRenderMode.
GetRenderMode(batch) ==
    IF batch.transparency_mode = GPUTransparencyMode_Disabled
      THEN TransparencyDisabled
      ELSE TransparentAndOpaque

\* The test with the negation of m_supports_dual_source_blend left out.
NeedsTwoPassRenderingWithDualSource(batch, dual) ==
    /\ batch.texture_mode # GPUTextureMode_Disabled
    /\ dual
    /\ batch.transparency_mode # GPUTransparencyMode_Disabled

\* The test without the check that the batch is textured.
NeedsTwoPassRenderingUntextured(batch, dual) ==
    \/ batch.transparency_mode = BackgroundMinusForeground
    \/ (~dual /\ batch.transparency_mode # GPUTransparencyMode_Disabled)

NeedsTwoPassRendering(batch, dual) ==
    /\ batch.texture_mode # GPUTextureMode_Disabled
    /\ \/ batch.transparency_mode = BackgroundMinusForeground
       \/ (~dual /\ batch.transparency_mode # GPUTransparencyMode_Disabled)

\* 1.0f - m_current_depth / 65535.0f, as the numerator over 65535.
GetCurrentNormalizedVertexDepth(depth) == 65535 - depth

\* The write of a vertex that ends the process.
VertexWriteEndsProcess(h) ==
    [h EXCEPT !.c = Fault(Fault(@, "vertex_write_out_of_bounds"), "segfault")]

\* AddVertex / AddNewVertex: write the slot at the current pointer, move on.
\* A write through the null pointer of an unmapped buffer ends the process;
\* one outside the mapped region does if no memory is mapped there (h.after)
\* and lands in the memory around the region otherwise.
AddVertex(h, cfg) ==
    IF h.cur = NULL
      THEN VertexWriteEndsProcess(h)
      ELSE IF h.cur < h.start \/ h.cur >= h.end
        THEN IF h.after = Unmapped
               THEN VertexWriteEndsProcess(h)
               ELSE [h EXCEPT !.c = Fault(@, "vertex_write_out_of_bounds"), !.cur = @ + 1]
        ELSE [h EXCEPT !.cur = @ + 1, !.cfgs = @ \cup {cfg}]

RECURSIVE AddVertices(_, _, _)
AddVertices(h, cfg, n) ==
    IF n = 0 \/ "segfault" \in h.c.faults
      THEN h
      ELSE AddVertices(AddVertex(h, cfg), cfg, n - 1)

DrawBatchVertices(h, render_mode, base_vertex, num_vertices) ==
    [h EXCEPT !.draws = Append(@, [mode |-> render_mode, base |-> base_vertex,
                                   n |-> num_vertices, cfgs |-> h.cfgs])]

MapBatchVertexPointer(h, required_vertices) ==
    [h EXCEPT !.start = VertexBufferStart, !.cur = VertexBufferStart,
              !.end = VertexBufferStart + MaxVertexSpace, !.base = 0]

UnmapBatchVertexPointer(h, used_vertices) ==
    [h EXCEPT !.start = NULL, !.cur = NULL, !.end = NULL]

\* The rectangle a bounding box covers.
BoxRect(d) == Rect(d.left, d.top, d.right - d.left, d.bottom - d.top)

\* The flush that issues its draw call before it tests for an empty batch.
FlushBatchDrawsEmpty(h) ==
    LET n == GetBatchVertexCount(h)
        r == BoxRect(h.rect)
        drawn == IF NeedsTwoPassRendering(h.batch, h.dual)
                   THEN DrawBatchVertices(
                            DrawBatchVertices(h, OnlyOpaque, h.base, n),
                            OnlyTransparent, h.base, n)
                   ELSE DrawBatchVertices(h, GetRenderMode(h.batch), h.base, n)
    IN  IF IsFlushed(h)
          THEN drawn
          ELSE [UnmapBatchVertexPointer(drawn, n) EXCEPT
                   !.c = InvalidatePages(@, r.x, r.y, r.w, r.h),
                   !.dirty = IncludeVRAMDirtyRectangle(@, r),
                   !.writes = Append(@, r),
                   !.flushes = @ + 1, !.rect = InvalidRect, !.cfgs = {}]

\* GPU_HW::FlushRender: nothing for an empty batch; otherwise one draw, or
\* OnlyOpaque then OnlyTransparent, over the batch's vertices, with the
\* cache pages of the drawn area invalidated and the dirty rectangle grown.
FlushBatch(h) ==
    IF IsFlushed(h)
      THEN h
      ELSE LET n == GetBatchVertexCount(h)
               r == BoxRect(h.rect)
               drawn == IF NeedsTwoPassRendering(h.batch, h.dual)
                          THEN DrawBatchVertices(
                                   DrawBatchVertices(h, OnlyOpaque, h.base, n),
                                   OnlyTransparent, h.base, n)
                          ELSE DrawBatchVertices(h, GetRenderMode(h.batch), h.base, n)
           IN  [UnmapBatchVertexPointer(drawn, n) EXCEPT
                   !.c = InvalidatePages(@, r.x, r.y, r.w, r.h),
                   !.dirty = IncludeVRAMDirtyRectangle(@, r),
                   !.writes = Append(@, r),
                   !.flushes = @ + 1, !.rect = InvalidRect, !.cfgs = {}]

\* The counter reset that does not flush the batch first.
ResetBatchVertexDepthNoFlush(h) ==
    [h EXCEPT !.depth = 1, !.pdepth = NoDepth, !.resets = @ + 1]

\* GPU_HW::ResetBatchVertexDepth: flush, then restart the counter.
ResetBatchVertexDepth(h) ==
    [FlushBatch(h) EXCEPT !.depth = 1, !.pdepth = NoDepth, !.resets = @ + 1]

EnsureVertexBufferSpace(h, required_vertices) ==
    IF h.cur # NULL
      THEN IF U32GreaterEq(GetBatchVertexSpace(h), U32(required_vertices))
             THEN h
             ELSE MapBatchVertexPointer(FlushBatch(h), required_vertices)
      ELSE MapBatchVertexPointer(h, required_vertices)

\* Admission without the comparison of the configurations.
AdmitWithoutFlush(h, cfg) == h

\* Admission: a configuration that differs from the in-flight batch's in any
\* field flushes that batch.
AdmitConfig(h, cfg) == IF cfg # h.batch THEN FlushBatch(h) ELSE h

\* One primitive of required_vertices vertices covering rectangle r, under
\* the configuration cfg derived from the GPU state.  A culled primitive
\* (clipped away, or larger than the renderable size) adds no vertex and
\* takes no depth value.
AdmitPrimitive(h, cfg, required_vertices, r, culled) ==
    LET h1 == AdmitConfig([h EXCEPT !.required = required_vertices], cfg)
        h2 == EnsureVertexBufferSpace(h1, required_vertices)
        h3 == [h2 EXCEPT !.batch = cfg]
        h4 == [h3 EXCEPT !.depth = @ + 1]
        h5 == AddVertices(h4, cfg, required_vertices)
    IN  IF culled
          THEN h3
          ELSE IF "segfault" \in h5.c.faults
            THEN h5
            ELSE [h5 EXCEPT !.rect = IncludeVRAMDirtyRectangle(@, r),
                            !.pdepth = GetCurrentNormalizedVertexDepth(h4.depth)]

\* Pages InvalidatePage ran on for the rectangles written.
RECURSIVE WrittenPages(_)
WrittenPages(ws) ==
    IF ws = << >>
      THEN {}
      ELSE SeqToSet(LoopPages(Head(ws).x, Head(ws).y, Head(ws).w, Head(ws).h))
             \cup WrittenPages(Tail(ws))

CommitHW(h, name, r) ==
    /\ Running
    /\ Commit(h.c)
    /\ m_batch' = h.batch
    /\ m_batch_start_vertex_ptr' = h.start
    /\ m_batch_end_vertex_ptr' = h.end
    /\ m_batch_current_vertex_ptr' = h.cur
    /\ m_batch_base_vertex' = h.base
    /\ m_current_depth' = h.depth
    /\ batch_rect' = h.rect
    /\ batch_cfgs' = h.cfgs
    /\ prim_depth' = h.pdepth
    /\ m_vram_dirty_rect' = h.dirty
    /\ cmd' = [name |-> name, draws |-> h.draws, flushes |-> h.flushes,
               resets |-> h.resets, writes |-> h.writes, required |-> h.required]
    /\ op' = Op(name, NoKey, r, 0, "none", << >>, Freed(h.c))
    /\ stale' = {s \in SourceIds :
                    h.c.hp[s].live
                      /\ (s \in stale
                            \/ \E k \in DOMAIN h.writes :
                                  Overwrites(h.writes[k], h.c.hp[s].key))}
    /\ last_src' = ForgetTouched(WrittenPages(h.writes))
    /\ UNCHANGED << num_fetched, ret, decode_vars, m_supports_dual_source_blend,
                    rect_vars, fx_vars >>

DispatchRenderCommand(cfg, required_vertices, r, culled) ==
    /\ num_prims < MaxPrims
    /\ num_prims' = num_prims + 1
    /\ LET landed == AdmitPrimitive(HWState, cfg, required_vertices, r, culled)
       IN  \E after \in (IF "vertex_write_out_of_bounds" \in landed.c.faults
                           THEN Beyonds ELSE {Mapped}) :
              CommitHW(IF after = Mapped
                         THEN landed
                         ELSE AdmitPrimitive([HWState EXCEPT !.after = after], cfg,
                                             required_vertices, r, culled),
                       IF culled THEN "DispatchRenderCommand (culled)"
                                 ELSE "DispatchRenderCommand", r)

FlushRenderCall ==
    /\ CommitHW(FlushBatch(HWState), "FlushRender", NoRect)
    /\ UNCHANGED num_prims

\* Start of a frame, or an explicit clear.
ResetBatchVertexDepthCall ==
    /\ CommitHW(ResetBatchVertexDepth(HWState), "ResetBatchVertexDepth", NoRect)
    /\ UNCHANGED num_prims

ClearVRAMDirtyRectangle(d) == InvalidRect

\* The read-back of the drawn area, and the clear that follows it.
UpdateVRAMReadTexture ==
    /\ CommitHW([HWState EXCEPT !.dirty = ClearVRAMDirtyRectangle(@)],
                "UpdateVRAMReadTexture", NoRect)
    /\ UNCHANGED num_prims

\* Configurations derived from the GPU state: the default one, textured
\* background-minus-foreground, the same with dithering, untextured
\* background-minus-foreground, and textured half-blend with the mask test.
CfgTexturedBMF ==
    [DefaultBatchConfig EXCEPT !.texture_mode = Palette4Bit,
                               !.transparency_mode = BackgroundMinusForeground]

CfgUntexturedBMF ==
    [DefaultBatchConfig EXCEPT !.transparency_mode = BackgroundMinusForeground]

CfgTexturedHalf ==
    [DefaultBatchConfig EXCEPT !.texture_mode = Direct16Bit,
                               !.transparency_mode = HalfBackgroundPlusHalfForeground,
                               !.check_mask_before_draw = TRUE,
                               !.set_mask_while_drawing = TRUE]

BatchConfigs ==
    {DefaultBatchConfig, CfgTexturedBMF, [CfgTexturedBMF EXCEPT !.dithering = TRUE],
     CfgUntexturedBMF, CfgTexturedHalf}

\* Vertices of a triangle, and of a quad or line drawn as two triangles.
VertexCounts == {3, 6}

\* Counter values a run starts from: a new renderer, and one that has drawn
\* many primitives since the counter was last reset.
StartDepths == {0, MAX_BATCH_VERTEX_COUNTER_IDS - 4}

InitBatch ==
    \E dual \in BOOLEAN, depth \in StartDepths :
        /\ m_page_sources = [p \in Pages |-> SourceList(NullNode, NullNode)]
        /\ heap = [s \in SourceIds |-> FreeCell]
        /\ num_fetched = 0
        /\ num_recycled = 0
        /\ faults = {}
        /\ op = Op("Init", NoKey, NoRect, 0, "none", << >>, {})
        /\ ret = NULL
        /\ last_src = [k \in Keys |-> NULL]
        /\ stale = {}
        /\ m_vram_dirty_rect = InvalidRect
        /\ DecodeIdle
        /\ m_batch = DefaultBatchConfig
        /\ m_batch_start_vertex_ptr = NULL
        /\ m_batch_end_vertex_ptr = NULL
        /\ m_batch_current_vertex_ptr = NULL
        /\ m_batch_base_vertex = 0
        /\ m_current_depth = depth
        /\ m_supports_dual_source_blend = dual
        /\ batch_rect = InvalidRect
        /\ batch_cfgs = {}
        /\ prim_depth = NoDepth
        /\ num_prims = 0
        /\ cmd = NoCmd
        /\ RectIdle
        /\ FxIdle

\* Area a primitive covers: the first words of page 0, where the Source of
\* the looked-up key is listed.
PrimRects == {Rect(0, 0, 16, 1)}

NextBatch ==
    \/ \E cfg \in BatchConfigs, n \in VertexCounts, r \in PrimRects, culled \in BOOLEAN :
          DispatchRenderCommand(cfg, n, r, culled)
    \/ FlushRenderCall
    \/ ResetBatchVertexDepthCall
    \/ UpdateVRAMReadTexture
    \/ LookupSource(KeyD16, TRUE)

SpecBatch == InitBatch /\ [][NextBatch]_vars

\* Lookups, the operations that write video memory, and the read-back.
NextHW ==
    \/ \E key \in Keys, fetch_ok \in BOOLEAN : LookupSource(key, fetch_ok)
    \/ \E r \in WriteRects : FillVRAM(r)
    \/ \E r \in WriteRects : UpdateVRAM(r)
    \/ \E r \in WriteRects : CopyVRAM(0, 0, r)
    \/ \E r \in WriteRects : FlushRender(r)
    \/ UpdateVRAMReadTexture

SpecHW == Init /\ [][NextHW]_vars

\* One primitive under any combination of texture mode and transparency
\* mode, on either kind of device, and the flushes that follow it.
ModeConfigs ==
    {[DefaultBatchConfig EXCEPT !.texture_mode = tm, !.transparency_mode = tr] :
        tm \in {Palette4Bit, Palette8Bit, Direct16Bit, Reserved_Direct16Bit,
                GPUTextureMode_Disabled},
        tr \in {HalfBackgroundPlusHalfForeground, BackgroundPlusForeground,
                BackgroundMinusForeground, BackgroundPlusQuarterForeground,
                GPUTransparencyMode_Disabled}}

NextModes ==
    \/ /\ num_prims = 0
       /\ \E cfg \in ModeConfigs, n \in VertexCounts, r \in PrimRects :
              DispatchRenderCommand(cfg, n, r, FALSE)
    \/ /\ num_prims = 1
       /\ FlushRenderCall

SpecModes == InitBatch /\ [][NextModes]_vars

\* Keys decoded: a page on each page row, the four modes, and a palette
\* at the first word of page 0 or at (320, 300) inside page 21, so that the
\* palette lies inside the decoded page for some keys and outside for others.
DecodePages == {0, 21}

DecodePalettes == {0, 20 + (64 * 300)}

DecodeKeys ==
    {SourceKey(p, pal, m) :
        p \in DecodePages, pal \in DecodePalettes, m \in {Palette4Bit, Palette8Bit}}
      \cup {SourceKey(p, 0, m) : p \in DecodePages, m \in {Direct16Bit, Reserved_Direct16Bit}}

\* Words of the page are bg, but for the palette's entry 0 and, with poke,
\* the last word of the page, whose top nibble selects palette entry 1.
DecodeStart(key, bg, e0, poke) ==
    LET pal == (GetYBase(key.palette) * VRAM_WIDTH) + GetXBase(key.palette)
        last == VRAMPagePointer(key.page) + ((VRAM_PAGE_HEIGHT - 1) * VRAM_WIDTH)
                  + (VRAM_PAGE_WIDTH - 1)
    IN  /\ m_page_sources = [p \in Pages |-> SourceList(NullNode, NullNode)]
        /\ heap = [s \in SourceIds |-> FreeCell]
        /\ num_fetched = 0
        /\ num_recycled = 0
        /\ faults = {}
        /\ op = Op("Init", NoKey, NoRect, 0, "none", << >>, {})
        /\ ret = NULL
        /\ last_src = [k \in Keys |-> NULL]
        /\ stale = {}
        /\ m_vram_dirty_rect = InvalidRect
        /\ g_vram = [bg |-> bg,
                     cells |-> [a \in {pal} \cup (IF poke THEN {last} ELSE {}) |->
                                   IF a = pal THEN e0 ELSE 4096]]
        /\ decode_key = key
        /\ tex_map = << >>
        /\ BatchIdle
        /\ RectIdle
        /\ FxIdle

InitDecode ==
    \E key \in DecodeKeys, bg \in {0, 1}, e0 \in {32768, 0, 32799}, poke \in BOOLEAN :
        DecodeStart(key, bg, e0, poke)

DecodeTextureCall ==
    /\ Running
    /\ decode_key # NoKey
    /\ tex_map = << >>
    /\ \E after \in DecodeTextureBeyonds(decode_key) :
          LET d == DecodeTextureOutcome(g_vram, decode_key, after)
          IN  /\ tex_map' = d.tex
              /\ faults' = faults \cup d.faults
    /\ op' = Op("DecodeTexture", decode_key, NoRect, 0, "none", << >>, {})
    /\ UNCHANGED << m_page_sources, heap, num_fetched, num_recycled, ret,
                    last_src, stale, m_vram_dirty_rect, g_vram, decode_key,
                    batch_vars, rect_vars, fx_vars >>

NextDecode == DecodeTextureCall

SpecDecode == InitDecode /\ [][NextDecode]_vars

\* Keys at the right and bottom edges of video memory: the last page of
\* each page row, and a palette at the first word or at (1008, 511).  The
\* word 4096 selects palette entry 16 in 8-bit mode, which for the palette
\* at (1008, 511) is the first word past the end of g_vram.
EdgePages == {15, 31}

EdgePalettes == {0, 63 + (64 * 511)}

EdgeKeys == {SourceKey(p, pal, m) : p \in EdgePages, pal \in EdgePalettes, m \in AllModes}

InitDecodeEdge ==
    \E key \in EdgeKeys, bg \in {0, 1, 4096}, e0 \in {32768, 0} :
        DecodeStart(key, bg, e0, FALSE)

SpecDecodeEdge == InitDecodeEdge /\ [][NextDecode]_vars

\* Every 16-bit word of page pn of video memory v is w.
PageFilledWith(v, pn, w) ==
    \A y \in 0 .. (VRAM_PAGE_HEIGHT - 1), x \in 0 .. (VRAM_PAGE_WIDTH - 1) :
        VRAMRead(v, VRAMPagePointer(pn) + (y * VRAM_WIDTH) + x) = w

\* Entry 0 of the palette the register value selects.
PaletteEntry0(v, palette) ==
    VRAMRead(v, (GetYBase(palette) * VRAM_WIDTH) + GetXBase(palette))

(***************************************************************************)
(* Rectangle commands: GPU_HW::LoadVertices splits a textured rectangle    *)
(* where its texture coordinates cross a texture-page boundary.            *)
(***************************************************************************)
\* Largest primitive the rasteriser draws; a larger one is dropped.
MAX_PRIMITIVE_WIDTH == 1024

MAX_PRIMITIVE_HEIGHT == 512

\* The vertex count reserved for one rectangle command, without the tile
\* that a texture coordinate off the page boundary adds on each axis.
MaxVerticesForRectangleAligned ==
    6 * ((MAX_PRIMITIVE_WIDTH + (TEXTURE_PAGE_WIDTH - 1)) \div TEXTURE_PAGE_WIDTH)
      * ((MAX_PRIMITIVE_HEIGHT + (TEXTURE_PAGE_HEIGHT - 1)) \div TEXTURE_PAGE_HEIGHT)

\* The vertex count reserved for one rectangle command.
MAX_VERTICES_FOR_RECTANGLE ==
    6 * (((MAX_PRIMITIVE_WIDTH + (TEXTURE_PAGE_WIDTH - 1)) \div TEXTURE_PAGE_WIDTH) + 1)
      * (((MAX_PRIMITIVE_HEIGHT + (TEXTURE_PAGE_HEIGHT - 1)) \div TEXTURE_PAGE_HEIGHT) + 1)

RectCmd(width, height, u, v) == [width |-> width, height |-> height, u |-> u, v |-> v]

\* The tiles of one row of the rectangle, from x_offset on: a tile ends where
\* the texture coordinate reaches the page's right edge, and the next tile
\* starts at texture coordinate 0.
RECURSIVE RectangleRowTiles(_, _, _, _, _, _)
RectangleRowTiles(width, x_offset, tex_left, y_offset, quad_height, tex_top) ==
    IF x_offset >= width
      THEN << >>
      ELSE LET rest == width - x_offset
               room == TEXTURE_PAGE_WIDTH - tex_left
               quad_width == IF rest < room THEN rest ELSE room
           IN  << [x |-> x_offset, y |-> y_offset, w |-> quad_width,
                   h |-> quad_height, u |-> tex_left, v |-> tex_top] >>
               \o RectangleRowTiles(width, x_offset + quad_width, 0, y_offset,
                                    quad_height, tex_top)

\* The rows of tiles, from y_offset on.
RECURSIVE RectangleTilesFrom(_, _, _, _)
RectangleTilesFrom(c, y_offset, tex_top, orig_tex_left) ==
    IF y_offset >= c.height
      THEN << >>
      ELSE LET rest == c.height - y_offset
               room == TEXTURE_PAGE_HEIGHT - tex_top
               quad_height == IF rest < room THEN rest ELSE room
           IN  RectangleRowTiles(c.width, 0, orig_tex_left, y_offset, quad_height,
                                 tex_top)
               \o RectangleTilesFrom(c, y_offset + quad_height, 0, orig_tex_left)

\* The tiles of a rectangle command; none for a rectangle larger than the
\* rasteriser draws.
RectangleTiles(c) ==
    IF c.width > MAX_PRIMITIVE_WIDTH \/ c.height > MAX_PRIMITIVE_HEIGHT
      THEN << >>
      ELSE RectangleTilesFrom(c, 0, c.v, c.u)

\* Two triangles per tile.
RectangleVertexCount(tiles) == 6 * Len(tiles)

\* Rectangle sizes and texture coordinates around the page boundaries and
\* the largest drawable size.
RectWidths == {1, 2, 256, 257, 769, 770, 1023, 1024, 1025}

RectHeights == {1, 2, 257, 258, 511, 512, 513}

RectTexCoords == {0, 1, 255}

InitRect ==
    \E width \in RectWidths, height \in RectHeights, u \in RectTexCoords, v \in RectTexCoords :
        /\ m_page_sources = [p \in Pages |-> SourceList(NullNode, NullNode)]
        /\ heap = [s \in SourceIds |-> FreeCell]
        /\ num_fetched = 0
        /\ num_recycled = 0
        /\ faults = {}
        /\ op = Op("Init", NoKey, NoRect, 0, "none", << >>, {})
        /\ ret = NULL
        /\ last_src = [k \in Keys |-> NULL]
        /\ stale = {}
        /\ m_vram_dirty_rect = InvalidRect
        /\ DecodeIdle
        /\ BatchIdle
        /\ rect_cmd = RectCmd(width, height, u, v)
        /\ rect_tiles = << >>
        /\ FxIdle

\* The rectangle case of LoadVertices, after space for
\* MAX_VERTICES_FOR_RECTANGLE vertices was reserved: one write per vertex of
\* each tile; a write past the reserved space is out of bounds.
LoadRectangleCall ==
    /\ op.name = "Init"
    /\ rect_cmd # NoRectCmd
    /\ rect_tiles' = RectangleTiles(rect_cmd)
    /\ faults' = IF RectangleVertexCount(RectangleTiles(rect_cmd)) > MAX_VERTICES_FOR_RECTANGLE
                   THEN faults \cup {"vertex_write_out_of_bounds"}
                   ELSE faults
    /\ op' = Op("LoadRectangle", NoKey, NoRect, 0, "none", << >>, {})
    /\ UNCHANGED << m_page_sources, heap, num_fetched, num_recycled, ret,
                    last_src, stale, m_vram_dirty_rect, decode_vars, batch_vars,
                    rect_cmd, fx_vars >>

NextRect == LoadRectangleCall

SpecRect == InitRect /\ [][NextRect]_vars

(***************************************************************************)
(* PostProcessingShaderFX: a ReShade FX shader, its passes and textures.   *)
(***************************************************************************)
\* Reserved TextureID values.
INPUT_COLOR_TEXTURE == 0 - 1

INPUT_DEPTH_TEXTURE == 0 - 2

OUTPUT_COLOR_TEXTURE == 0 - 3

\* Device or file-system calls of one operation, any one of which may fail.
MaxDeviceCalls == 12

\* Uniforms an object is given options for, over all its loads.
MaxUniforms == 4

\* Frames drawn in a run.
MaxFrames == 2

\* PostProcessingShaderFX::Texture; texture and framebuffer: non-null or not.
Texture(texture, framebuffer, reshade_name, rt_scale) ==
    [texture |-> texture, framebuffer |-> framebuffer,
     reshade_name |-> reshade_name, rt_scale |-> rt_scale]

Sampler(slot, texture_id, reshade_name, sampler) ==
    [slot |-> slot, texture_id |-> texture_id, reshade_name |-> reshade_name,
     sampler |-> sampler]

Pass(pipeline, render_target, samplers) ==
    [pipeline |-> pipeline, render_target |-> render_target, samplers |-> samplers]

\* reshadefx::texture_info, sampler_info, pass_info and uniform_info: the
\* fields the shader reads.  source: the texture has a "source" annotation.
TextureInfo(unique_name, semantic, render_target, source) ==
    [unique_name |-> unique_name, semantic |-> semantic,
     render_target |-> render_target, source |-> source]

SamplerInfo(unique_name, texture_name, address_u, address_v, address_w) ==
    [unique_name |-> unique_name, texture_name |-> texture_name,
     address_u |-> address_u, address_v |-> address_v, address_w |-> address_w]

PassInfo(render_target_name, samplers, topology) ==
    [render_target_name |-> render_target_name, samplers |-> samplers,
     topology |-> topology]

\* size and offset are in bytes; initializer_value is the 32-bit words of
\* the initializer, one per component.
UniformInfo(type, components, size, source, has_initializer_value, string_data, initializer_value, offset) ==
    [type |-> type, components |-> components, size |-> size, source |-> source,
     has_initializer_value |-> has_initializer_value,
     string_data |-> string_data, initializer_value |-> initializer_value,
     offset |-> offset]

\* The object as one value, threaded through the helpers below, with the
\* device calls made so far in the operation, the call that fails (0: none),
\* whether the operation is still succeeding, and the aborts it ran into.
Fx(fail_at) ==
    [valid |-> m_valid, passes |-> m_passes, textures |-> m_textures,
     source_options |-> m_source_options, options |-> m_options,
     uniforms_size |-> m_uniforms_size, calls |-> 0, fail_at |-> fail_at,
     ok |-> TRUE, faults |-> {}]

\* Whether the next device call succeeds, and the object after a call.
CallOk(f) == f.calls + 1 # f.fail_at

DeviceCall(f) == [f EXCEPT !.calls = @ + 1]

\* return false.
Failed(f) == [f EXCEPT !.ok = FALSE]

\* Panic(): the program aborts.
Panicked(f) == [f EXCEPT !.ok = FALSE, !.faults = @ \cup {"panic"}]

\* Preprocessing and parsing the file named by m_filename.
CreateModule(f, mod) ==
    IF mod = NoModule \/ ~CallOk(f) THEN Failed(DeviceCall(f)) ELSE DeviceCall(f)

\* reshadefx::type::is_integral and is_floating_point.
IsIntegral(type) == type \in {"bool", "int", "uint"}

IsFloatingPoint(type) == type = "float"

\* GetSourceOption: ok is the return value, so the option written to *si.
GetSourceOption(ui) ==
    IF ui.source # ""
      THEN IF ui.source = "timer"
             THEN IF ui.type # "float" \/ ui.components > 1
                    THEN [ok |-> FALSE, so |-> "None"]
                    ELSE [ok |-> TRUE, so |-> "Timer"]
           ELSE IF ui.source = "framecount"
             THEN IF (~IsIntegral(ui.type) /\ ~IsFloatingPoint(ui.type)) \/ ui.components > 1
                    THEN [ok |-> FALSE, so |-> "None"]
                    ELSE [ok |-> TRUE,
                          so |-> IF ui.type = "float" THEN "FrameCountF" ELSE "FrameCount"]
           ELSE IF ui.source = "overlay_active"
             THEN [ok |-> TRUE, so |-> "Zero"]
             ELSE [ok |-> FALSE, so |-> "None"]
    ELSE IF ui.has_initializer_value /\ ui.string_data = "BUFFER_WIDTH"
      THEN [ok |-> TRUE, so |-> IF ui.type = "float" THEN "BufferWidthF" ELSE "BufferWidth"]
    ELSE IF ui.has_initializer_value /\ ui.string_data = "BUFFER_HEIGHT"
      THEN [ok |-> TRUE, so |-> IF ui.type = "float" THEN "BufferHeightF" ELSE "BufferHeight"]
      ELSE [ok |-> TRUE, so |-> "None"]

\* Option::MAX_VECTOR_COMPONENTS.
MAX_VECTOR_COMPONENTS == 4

\* Option::Type of a uniform's base type, "" for one that is not handled.
OptionType(type) ==
    IF type = "float" THEN "Float"
    ELSE IF type \in {"int", "uint"} THEN "Int"
    ELSE IF type = "bool" THEN "Bool"
    ELSE ""

\* opt.default_value: the first vector_size words of the initializer copied
\* into the Option CreateOptions declares without initialising it, or all
\* zeroes for a uniform without initializer.
DefaultValue(ui) ==
    [k \in 1..MAX_VECTOR_COMPONENTS |->
        IF ~ui.has_initializer_value THEN 0
        ELSE IF k <= ui.components THEN ui.initializer_value[k]
        ELSE Indeterminate]

Option(type, buffer_offset, buffer_size, vector_size, value) ==
    [type |-> type, buffer_offset |-> buffer_offset, buffer_size |-> buffer_size,
     vector_size |-> vector_size, value |-> value]

\* The loop of CreateOptions over mod.uniforms, from uniform i on.
RECURSIVE CreateOptionsFrom(_, _, _)
CreateOptionsFrom(f, uis, i) ==
    IF i > Len(uis)
      THEN f
      ELSE LET ui == uis[i]
               r == GetSourceOption(ui)
           IN  IF ~r.ok
                 THEN Failed(f)
               ELSE IF r.so # "None"
                 THEN CreateOptionsFrom(
                        [f EXCEPT !.source_options = Append(@, << r.so, ui.offset >>)],
                        uis, i + 1)
               ELSE IF OptionType(ui.type) = ""
                 THEN Failed(f)
               ELSE IF ui.components = 0 \/ ui.components > MAX_VECTOR_COMPONENTS
                 THEN Failed(f)
                 ELSE CreateOptionsFrom(
                        [f EXCEPT !.options =
                            Append(@, Option(OptionType(ui.type), ui.offset, ui.size,
                                             ui.components, DefaultValue(ui)))],
                        uis, i + 1)

CreateOptions(f, mod) ==
    LET r == CreateOptionsFrom(f, mod.uniforms, 1)
    IN  IF r.ok THEN [r EXCEPT !.uniforms_size = mod.total_uniform_size] ELSE r

LoadFromFile(f, mod) ==
    LET m == CreateModule(f, mod)
    IN  IF ~m.ok
          THEN m
          ELSE LET o == CreateOptions(m, mod)
               IN  IF o.ok THEN [o EXCEPT !.valid = TRUE] ELSE o

IsValid == m_valid

\* m_textures.push_back.
PushTexture(f, tex) == [f EXCEPT !.textures = Append(@, tex)]

\* Index of the first texture of that reshade_name, textures.size() if none.
TextureIndex(textures, name) ==
    LET hits == {i \in 1..Len(textures) : textures[i].reshade_name = name}
    IN  IF hits = {}
          THEN Len(textures)
          ELSE (CHOOSE i \in hits : \A j \in hits : i <= j) - 1

\* The first loop of CreatePasses: the module's textures, from texture i on.
RECURSIVE CreatePassTextures(_, _, _)
CreatePassTextures(f, tis, i) ==
    IF i > Len(tis)
      THEN f
      ELSE LET ti == tis[i]
           IN  IF ti.semantic # ""
                 THEN CreatePassTextures(f, tis, i + 1)
               ELSE IF ti.render_target
                 THEN CreatePassTextures(
                        PushTexture(f, Texture(FALSE, FALSE, ti.unique_name, 1)),
                        tis, i + 1)
               ELSE IF ~ti.source
                 THEN Failed(f)
               ELSE IF ~CallOk(f)
                 THEN Failed(DeviceCall(f))
                 ELSE LET g == DeviceCall(f)
                      IN  IF ~CallOk(g)
                            THEN Failed(DeviceCall(g))
                            ELSE CreatePassTextures(
                                   PushTexture(DeviceCall(g),
                                               Texture(TRUE, FALSE, ti.unique_name, 0)),
                                   tis, i + 1)

\* The texture id a sampler is hooked up to; textures.size() when the
\* sampler's texture is unknown or has a semantic other than COLOR and DEPTH.
SamplerTextureID(textures, mod, si) ==
    LET hits == {i \in 1..Len(mod.textures) : mod.textures[i].unique_name = si.texture_name}
    IN  IF hits = {}
          THEN Len(textures)
          ELSE LET ti == mod.textures[CHOOSE i \in hits : \A j \in hits : i <= j]
               IN  IF ti.semantic = "COLOR" THEN INPUT_COLOR_TEXTURE
                   ELSE IF ti.semantic = "DEPTH" THEN INPUT_DEPTH_TEXTURE
                   ELSE IF ti.semantic # "" THEN Len(textures)
                   ELSE TextureIndex(textures, si.texture_name)

\* map_address_mode of MapSampler: "" stands for the Panic of the mirror
\* case.
MapAddressMode(m) ==
    IF m = "wrap" THEN "Repeat"
    ELSE IF m = "mirror" THEN ""
    ELSE IF m = "clamp" THEN "ClampToEdge"
    ELSE "ClampToBorder"

\* MapSampler: the address modes of the GPUSampler::Config, and whether
\* mapping them ran into the Panic.
MapSampler(si) ==
    LET u == MapAddressMode(si.address_u)
        v == MapAddressMode(si.address_v)
        w == MapAddressMode(si.address_w)
    IN  [address_u |-> u, address_v |-> v, address_w |-> w,
         panic |-> "" \in {u, v, w}]

\* The samplers of one pass, from sampler j on.  MapSampler runs before the
\* device is asked for the sampler.
RECURSIVE CreateSamplers(_, _, _, _, _)
CreateSamplers(f, mod, sis, j, acc) ==
    IF j > Len(sis)
      THEN [f |-> f, samplers |-> acc]
      ELSE LET id == SamplerTextureID(f.textures, mod, sis[j])
           IN  IF id = Len(f.textures)
                 THEN [f |-> Failed(f), samplers |-> acc]
               ELSE IF MapSampler(sis[j]).panic
                 THEN [f |-> Panicked(f), samplers |-> acc]
               ELSE IF ~CallOk(f)
                 THEN [f |-> Failed(DeviceCall(f)), samplers |-> acc]
                 ELSE CreateSamplers(DeviceCall(f), mod, sis, j + 1,
                                     Append(acc, Sampler(j - 1, id, sis[j].unique_name, TRUE)))

\* The second loop of CreatePasses: the technique's passes, from pass i on.
RECURSIVE CreatePassList(_, _, _)
CreatePassList(f, mod, i) ==
    IF i > Len(mod.passes)
      THEN f
      ELSE LET pi == mod.passes[i]
               is_final == i = Len(mod.passes)
               named == pi.render_target_name # ""
               found == TextureIndex(f.textures, pi.render_target_name)
               render_target == IF is_final THEN OUTPUT_COLOR_TEXTURE
                                ELSE IF named THEN found
                                ELSE Len(f.textures)
               f1 == IF is_final \/ named
                       THEN f
                       ELSE PushTexture(f, Texture(FALSE, FALSE, "", 1))
           IN  IF ~is_final /\ named /\ found = Len(f.textures)
                 THEN Failed(f)
                 ELSE LET r == CreateSamplers(f1, mod, pi.samplers, 1, << >>)
                      IN  IF ~r.f.ok
                            THEN r.f
                            ELSE CreatePassList(
                                   [r.f EXCEPT !.passes =
                                       Append(@, Pass(FALSE, render_target, r.samplers))],
                                   mod, i + 1)

CreatePasses(f, mod) ==
    IF Len(mod.passes) = 0
      THEN Failed(f)
      ELSE LET t == CreatePassTextures(f, mod.textures, 1)
           IN  IF t.ok THEN CreatePassList(t, mod, 1) ELSE t

\* The loop of CompilePipeline over m_passes, from pass i on: both shaders
\* are compiled before either is tested; MapPrimitive panics on a line strip.
RECURSIVE CompilePasses(_, _, _)
CompilePasses(f, mod, i) ==
    IF i > Len(f.passes)
      THEN f
      ELSE LET vs == CallOk(f)
               f1 == DeviceCall(f)
               fs == CallOk(f1)
               f2 == DeviceCall(f1)
           IN  IF ~vs \/ ~fs
                 THEN Failed(f2)
               ELSE IF mod.passes[i].topology = "line_strip"
                 THEN Panicked(f2)
               ELSE IF ~CallOk(f2)
                 THEN Failed(DeviceCall(f2))
                 ELSE CompilePasses([DeviceCall(f2) EXCEPT !.passes[i].pipeline = TRUE],
                                    mod, i + 1)

CompilePipeline(f, mod) ==
    LET f0 == [f EXCEPT !.valid = FALSE, !.textures = << >>, !.passes = << >>]
        m == CreateModule(f0, mod)
    IN  IF ~m.ok
          THEN m
        ELSE IF mod.techniques # 1
          THEN Failed(m)
          ELSE LET p == CreatePasses(m, mod)
               IN  IF ~p.ok
                     THEN p
                     ELSE LET c == CompilePasses(p, mod, 1)
                          IN  IF c.ok THEN [c EXCEPT !.valid = TRUE] ELSE c

\* The loop of ResizeOutput over m_textures, from texture i on.
RECURSIVE ResizeTextures(_, _)
ResizeTextures(f, i) ==
    IF i > Len(f.textures)
      THEN f
    ELSE IF f.textures[i].rt_scale = 0
      THEN ResizeTextures(f, i + 1)
      ELSE LET f1 == [f EXCEPT !.textures[i].framebuffer = FALSE,
                               !.textures[i].texture = FALSE]
           IN  IF ~CallOk(f1)
                 THEN Failed(DeviceCall(f1))
                 ELSE LET f2 == [DeviceCall(f1) EXCEPT !.textures[i].texture = TRUE]
                      IN  IF ~CallOk(f2)
                            THEN Failed(DeviceCall(f2))
                            ELSE ResizeTextures(
                                   [DeviceCall(f2) EXCEPT !.textures[i].framebuffer = TRUE],
                                   i + 1)

ResizeOutput(f) ==
    LET r == ResizeTextures([f EXCEPT !.valid = FALSE], 1)
    IN  IF r.ok THEN [r EXCEPT !.valid = TRUE] ELSE r

\* GetFramebufferByID: whether the framebuffer returned is non-null, and the
\* abort the call runs into.  final_target: whether the caller passed one.
GetFramebufferByID(textures, id, final_target) ==
    IF id < 0
      THEN IF id = OUTPUT_COLOR_TEXTURE
             THEN [ptr |-> final_target, faults |-> {}]
             ELSE [ptr |-> FALSE, faults |-> {"panic"}]
    ELSE IF id >= Len(textures)
      THEN [ptr |-> FALSE, faults |-> {"panic"}]
    ELSE IF ~textures[id + 1].framebuffer
      THEN [ptr |-> FALSE, faults |-> {"assert"}]
      ELSE [ptr |-> TRUE, faults |-> {}]

\* GetTextureByID: likewise for the texture a sampler reads.
GetTextureByID(textures, id) ==
    IF id < 0
      THEN IF id = INPUT_COLOR_TEXTURE
             THEN [ptr |-> TRUE, faults |-> {}]
             ELSE [ptr |-> FALSE, faults |-> {"panic"}]
    ELSE IF id >= Len(textures)
      THEN [ptr |-> FALSE, faults |-> {"panic"}]
      ELSE [ptr |-> textures[id + 1].texture, faults |-> {}]

\* Spacing of the floats around n >= 0: 1 up to 2^24, doubling from there.
RECURSIVE FloatUlp(_)
FloatUlp(n) == IF n < 16777216 THEN 1 ELSE 2 * FloatUlp(n \div 2)

\* static_cast<float> of a non-negative integer: the nearest float, ties to
\* the even one, as the integer it equals.
StaticCastFloat(n) ==
    LET q == FloatUlp(n)
        lo == (n \div q) * q
        r == n - lo
    IN  IF 2 * r < q THEN lo
        ELSE IF 2 * r > q THEN lo + q
        ELSE IF (lo \div q) % 2 = 0 THEN lo
        ELSE lo + q

\* The exponent of the highest bit set in n > 0.
RECURSIVE FloorLog2(_)
FloorLog2(n) == IF n < 2 THEN 0 ELSE 1 + FloorLog2(n \div 2)

\* The 32 bits memcpy copies out of a float that holds the non-negative
\* integer n (IEEE 754 single precision): biased exponent, then the 23 bits
\* below the highest one.
FloatBits(n) ==
    IF n = 0
      THEN 0
      ELSE LET e == FloorLog2(n)
               below == n - (2 ^ e)
           IN  ((e + 127) * 8388608)
                 + (IF e <= 23 THEN below * (2 ^ (23 - e)) ELSE below \div (2 ^ (e - 23)))

\* The 32-bit word Apply writes for a source option.
SourceValue(so, frame_count, timer, width, height) ==
    IF so = "Zero" THEN 0
    ELSE IF so = "Timer" THEN FloatBits(StaticCastFloat(timer))
    ELSE IF so = "FrameCount" THEN frame_count
    ELSE IF so = "FrameCountF" THEN FloatBits(StaticCastFloat(frame_count))
    ELSE IF so \in {"BufferWidth", "BufferHeight"}
      THEN IF so = "BufferWidth" THEN width ELSE height
      ELSE FloatBits(StaticCastFloat(IF so = "BufferWidth" THEN width ELSE height))

\* memcpy of one 32-bit word to a byte offset of the mapped buffer.
WriteUniform(buf, offset, value) ==
    [o \in DOMAIN buf \cup {offset} |-> IF o = offset THEN value ELSE buf[o]]

\* memcpy(uniforms + opt.buffer_offset, &opt.value[0], opt.buffer_size), from
\* word k on: the words of the value vector, and past its end whatever
\* follows it in the Option.
RECURSIVE WriteOption(_, _, _)
WriteOption(buf, opt, k) ==
    IF 4 * k >= opt.buffer_size
      THEN buf
      ELSE WriteOption(WriteUniform(buf, opt.buffer_offset + (4 * k),
                                    IF k < MAX_VECTOR_COMPONENTS
                                      THEN opt.value[k + 1] ELSE Indeterminate),
                       opt, k + 1)

RECURSIVE WriteOptions(_, _, _)
WriteOptions(buf, options, i) ==
    IF i > Len(options)
      THEN buf
      ELSE WriteOptions(WriteOption(buf, options[i], 0), options, i + 1)

RECURSIVE WriteSourceOptions(_, _, _, _, _, _, _)
WriteSourceOptions(buf, sos, i, frame_count, timer, width, height) ==
    IF i > Len(sos)
      THEN buf
      ELSE WriteSourceOptions(
             WriteUniform(buf, sos[i][2],
                          SourceValue(sos[i][1], frame_count, timer, width, height)),
             sos, i + 1, frame_count, timer, width, height)

\* The uniform buffer Apply maps and fills, by byte offset of each word
\* written; nothing is mapped for a shader without uniforms.
ApplyUniforms(f, frame_count, timer, width, height) ==
    IF f.uniforms_size > 0
      THEN WriteSourceOptions(WriteOptions(<< >>, f.options, 1), f.source_options, 1,
                              frame_count, timer, width, height)
      ELSE << >>

\* The DebugAssert ahead of each option's memcpy.
ApplyUniformsAsserts(f) ==
    IF /\ f.uniforms_size > 0
       /\ \E i \in 1..Len(f.options) :
             f.options[i].buffer_offset + f.options[i].buffer_size > f.uniforms_size
      THEN {"debug_assert"}
      ELSE {}

\* Whether a memcpy of Apply writes past the m_uniforms_size bytes mapped:
\* an option's buffer_size bytes, or the four bytes of a source option.
ApplyUniformsWritesBeyond(f) ==
    /\ f.uniforms_size > 0
    /\ \/ \E i \in 1..Len(f.options) :
             f.options[i].buffer_offset + f.options[i].buffer_size > f.uniforms_size
       \/ \E i \in 1..Len(f.source_options) : f.source_options[i][2] + 4 > f.uniforms_size

\* What the writes to the uniform buffer may find past its end.
ApplyUniformsBeyonds(f) == IF ApplyUniformsWritesBeyond(f) THEN Beyonds ELSE {Mapped}

\* The samplers of one pass, from sampler j on: the aborts they run into.
RECURSIVE ApplySamplers(_, _, _)
ApplySamplers(textures, samplers, j) ==
    IF j > Len(samplers)
      THEN {}
      ELSE LET t == GetTextureByID(textures, samplers[j].texture_id)
           IN  IF t.faults # {} THEN t.faults
               ELSE ApplySamplers(textures, samplers, j + 1)

\* The loop of Apply over m_passes, from pass i on: draws made, the return
\* value and the abort that ended the loop.
RECURSIVE ApplyPasses(_, _, _, _)
ApplyPasses(f, i, final_target, present_ok) ==
    IF i > Len(f.passes)
      THEN [draws |-> 0, ok |-> TRUE, faults |-> {}]
      ELSE LET pass == f.passes[i]
               fb == GetFramebufferByID(f.textures, pass.render_target, final_target)
               sf == ApplySamplers(f.textures, pass.samplers, 1)
           IN  IF fb.faults # {}
                 THEN [draws |-> 0, ok |-> FALSE, faults |-> fb.faults]
               ELSE IF sf # {}
                 THEN [draws |-> 0, ok |-> FALSE, faults |-> sf]
               ELSE IF ~fb.ptr /\ ~present_ok
                 THEN [draws |-> 0, ok |-> FALSE, faults |-> {}]
                 ELSE LET r == ApplyPasses(f, i + 1, final_target, present_ok)
                      IN  [r EXCEPT !.draws = @ + 1]

\* Textures, samplers, passes and uniforms of the shader files.
TexColor == TextureInfo("ColorTex", "COLOR", FALSE, FALSE)

TexDepth == TextureInfo("DepthTex", "DEPTH", FALSE, FALSE)

TexNormals == TextureInfo("NormalsTex", "NORMALS", FALSE, FALSE)

TexTarget == TextureInfo("TargetA", "", TRUE, FALSE)

TexImage == TextureInfo("Noise", "", FALSE, TRUE)

TexLut == TextureInfo("Lut", "", FALSE, FALSE)

SampleOf(texture_name) ==
    SamplerInfo("s_" \o texture_name, texture_name, "clamp", "clamp", "clamp")

\* A sampler that wraps along u and v and mirrors along w.
SampleMirrored(texture_name) ==
    SamplerInfo("s_" \o texture_name, texture_name, "wrap", "border", "mirror")

Triangles(render_target_name, samplers) ==
    PassInfo(render_target_name, samplers, "triangle_list")

\* total_uniform_size: the end of the uniform that ends last.
Module(textures, techniques, passes, uniform_infos) ==
    LET ends == {uniform_infos[i].offset + uniform_infos[i].size :
                    i \in 1..Len(uniform_infos)}
    IN  [textures |-> textures, techniques |-> techniques, passes |-> passes,
         uniforms |-> uniform_infos,
         total_uniform_size |-> IF ends = {} THEN 0
                                ELSE CHOOSE e \in ends : \A d \in ends : d <= e]

\* One pass from the input to the output; integer buffer-size uniforms.
ModSingle ==
    Module(<< TexColor >>, 1, << Triangles("", << SampleOf("ColorTex") >>) >>,
           << UniformInfo("int", 1, 4, "", TRUE, "BUFFER_WIDTH", << 0 >>, 0),
              UniformInfo("int", 1, 4, "", TRUE, "BUFFER_HEIGHT", << 0 >>, 4) >>)

\* Two passes through a named render target; float buffer-size uniforms.
ModChain ==
    Module(<< TexColor, TexTarget >>, 1,
           << Triangles("TargetA", << SampleOf("ColorTex") >>),
              Triangles("", << SampleOf("TargetA"), SampleOf("ColorTex") >>) >>,
           << UniformInfo("float", 1, 4, "", TRUE, "BUFFER_WIDTH", << 0 >>, 0),
              UniformInfo("float", 1, 4, "", TRUE, "BUFFER_HEIGHT", << 0 >>, 4) >>)

\* Two passes, the first to a render target of its own; timer and frame count.
ModUnnamed ==
    Module(<< TexColor >>, 1,
           << Triangles("", << SampleOf("ColorTex") >>),
              Triangles("", << SampleOf("ColorTex") >>) >>,
           << UniformInfo("float", 1, 4, "timer", FALSE, "", << >>, 0),
              UniformInfo("int", 1, 4, "framecount", FALSE, "", << >>, 4) >>)

\* One pass that samples the colour and the depth input; a user option of
\* 3.0.
ModDepth ==
    Module(<< TexColor, TexDepth >>, 1,
           << Triangles("", << SampleOf("ColorTex"), SampleOf("DepthTex") >>) >>,
           << UniformInfo("float", 1, 4, "", TRUE, "", << FloatBits(3) >>, 0),
              UniformInfo("bool", 1, 4, "overlay_active", FALSE, "", << >>, 4) >>)

\* One pass that samples an image file; a float frame count.
ModImage ==
    Module(<< TexColor, TexImage >>, 1,
           << Triangles("", << SampleOf("ColorTex"), SampleOf("Noise") >>) >>,
           << UniformInfo("float", 1, 4, "framecount", FALSE, "", << >>, 0) >>)

\* Files CreatePasses, CompilePipeline or CreateOptions reject.
ModUnknownTarget ==
    Module(<< TexColor >>, 1,
           << Triangles("Missing", << SampleOf("ColorTex") >>),
              Triangles("", << SampleOf("ColorTex") >>) >>,
           << >>)

ModNormals ==
    Module(<< TexColor, TexNormals >>, 1,
           << Triangles("", << SampleOf("ColorTex"), SampleOf("NormalsTex") >>) >>,
           << UniformInfo("struct", 1, 4, "", FALSE, "", << >>, 0) >>)

ModNoSource ==
    Module(<< TexLut >>, 1, << Triangles("", << SampleOf("Lut") >>) >>,
           << UniformInfo("int", 1, 4, "timer", FALSE, "", << >>, 0) >>)

ModLineStrip ==
    Module(<< TexColor >>, 1,
           << PassInfo("", << SampleOf("ColorTex") >>, "line_strip") >>,
           << UniformInfo("float", 0, 4, "", FALSE, "", << >>, 0) >>)

ModTwoTechniques ==
    Module(<< TexColor >>, 2, << Triangles("", << SampleOf("ColorTex") >>) >>, << >>)

\* A sampler with an address mode MapSampler does not implement.
ModMirror ==
    Module(<< TexColor >>, 1, << Triangles("", << SampleMirrored("ColorTex") >>) >>, << >>)

\* Vector options: a float2 of (3.0, 5.0), an int4 without initializer and
\* a uint3 of (7, 8, 9) that takes the 16 bytes of a four-component vector.
ModVectors ==
    Module(<< TexColor >>, 1, << Triangles("", << SampleOf("ColorTex") >>) >>,
           << UniformInfo("float", 2, 8, "", TRUE, "", << FloatBits(3), FloatBits(5) >>, 0),
              UniformInfo("int", 4, 16, "", FALSE, "", << >>, 16),
              UniformInfo("uint", 3, 16, "", TRUE, "", << 7, 8, 9 >>, 32) >>)

\* Options that share bytes of the buffer: an int of 9 at offset 4, then a
\* float2 of (3.0, 0.0) at offset 0.
ModOverlap ==
    Module(<< TexColor >>, 1, << Triangles("", << SampleOf("ColorTex") >>) >>,
           << UniformInfo("int", 1, 4, "", TRUE, "", << 9 >>, 4),
              UniformInfo("float", 2, 8, "", TRUE, "", << FloatBits(3), 0 >>, 0) >>)

\* One int uniform: a uniform buffer of four bytes.
ModSmall ==
    Module(<< TexColor >>, 1, << Triangles("", << SampleOf("ColorTex") >>) >>,
           << UniformInfo("int", 1, 4, "", TRUE, "", << 6 >>, 0) >>)

FxModules ==
    {ModSingle, ModChain, ModUnnamed, ModDepth, ModImage, ModUnknownTarget,
     ModNormals, ModNoSource, ModLineStrip, ModTwoTechniques, ModMirror,
     ModVectors, ModOverlap, ModSmall}

\* GetDefaultBufferWidth() and GetDefaultBufferHeight(): the window's size.
DefaultBufferSizes == {<< 640, 480 >>, << 512, 512 >>}

\* m_timer.GetTimeSeconds(), in whole seconds.
TimerSeconds == {0, 2}

\* A call on the shader object: its name, its return value, the buffer size
\* it was given and the draws it made.
FxOp(name, ok, size, draws) == [name |-> name, ok |-> ok, size |-> size, draws |-> draws]

\* The program has not aborted, nor been ended by a write to unmapped memory.
FxRunning == faults \cap {"panic", "assert", "segfault"} = {}

CommitFx(r) ==
    /\ m_valid' = r.valid
    /\ m_passes' = r.passes
    /\ m_textures' = r.textures
    /\ m_source_options' = r.source_options
    /\ m_options' = r.options
    /\ m_uniforms_size' = r.uniforms_size
    /\ faults' = faults \cup r.faults
    /\ UNCHANGED << m_page_sources, heap, num_fetched, num_recycled, ret,
                    last_src, stale, m_vram_dirty_rect, decode_vars, batch_vars,
                    rect_vars >>

InitFx ==
    /\ m_page_sources = [p \in Pages |-> SourceList(NullNode, NullNode)]
    /\ heap = [s \in SourceIds |-> FreeCell]
    /\ num_fetched = 0
    /\ num_recycled = 0
    /\ faults = {}
    /\ op = Op("Init", NoKey, NoRect, 0, "none", << >>, {})
    /\ ret = NULL
    /\ last_src = [k \in Keys |-> NULL]
    /\ stale = {}
    /\ m_vram_dirty_rect = InvalidRect
    /\ OtherInit

\* Files an object that has loaded one is made to load next: the same one
\* again, or one whose uniforms take four bytes.
FxReloads == {ModSmall}

\* LoadFromFile(name, filename): the file named may differ from the one
\* loaded before; the options of that one stay in m_options.
LoadFromFileCall ==
    \E mod \in FxModules, fail_at \in 0..MaxDeviceCalls :
        /\ FxRunning
        /\ fx_module \in {NoModule, mod} \/ mod \in FxReloads
        /\ Len(m_source_options) + Len(m_options) + Len(mod.uniforms) <= MaxUniforms
        /\ LET r == LoadFromFile(Fx(fail_at), mod)
           IN  /\ CommitFx(r)
               /\ op' = FxOp("LoadFromFile", r.ok, << >>, 0)
        /\ fx_module' = mod
        /\ UNCHANGED << m_frame_count, uniforms, fx_stage >>

CompilePipelineCall ==
    \E fail_at \in 0..MaxDeviceCalls :
        /\ FxRunning
        /\ LET r == CompilePipeline(Fx(fail_at), fx_module)
           IN  /\ CommitFx(r)
               /\ op' = FxOp("CompilePipeline", r.ok, << >>, 0)
               /\ fx_stage' = IF r.ok THEN "compiled" ELSE "none"
        /\ UNCHANGED << fx_module, m_frame_count, uniforms >>

ResizeOutputCall ==
    \E fail_at \in 0..MaxDeviceCalls :
        /\ FxRunning
        /\ LET r == ResizeOutput(Fx(fail_at))
           IN  /\ CommitFx(r)
               /\ op' = FxOp("ResizeOutput", r.ok, << >>, 0)
               /\ fx_stage' = IF fx_stage = "none" THEN "none"
                              ELSE IF r.ok THEN "resized" ELSE "compiled"
        /\ UNCHANGED << fx_module, m_frame_count, uniforms >>

\* A write past the end of the mapped uniform buffer ends the process
\* before anything is drawn if no memory is mapped there, and lands after
\* the buffer otherwise.
ApplyCall ==
    \E size \in DefaultBufferSizes, timer \in TimerSeconds, final_target \in BOOLEAN, present_ok \in BOOLEAN, after \in ApplyUniformsBeyonds(Fx(0)) :
        /\ FxRunning
        /\ m_frame_count < MaxFrames
        /\ m_frame_count' = m_frame_count + 1
        /\ IF ApplyUniformsWritesBeyond(Fx(0)) /\ after = Unmapped
             THEN /\ uniforms' = uniforms
                  /\ faults' = faults \cup ApplyUniformsAsserts(Fx(0)) \cup {"segfault"}
                  /\ op' = FxOp("Apply", FALSE, size, 0)
             ELSE /\ uniforms' = ApplyUniforms(Fx(0), m_frame_count + 1, timer, size[1], size[2])
                  /\ LET r == ApplyPasses(Fx(0), 1, final_target, present_ok)
                     IN  /\ faults' = faults \cup ApplyUniformsAsserts(Fx(0)) \cup r.faults
                         /\ op' = FxOp("Apply", r.ok, size, r.draws)
        /\ UNCHANGED << m_page_sources, heap, num_fetched, num_recycled, ret,
                        last_src, stale, m_vram_dirty_rect, decode_vars, batch_vars,
                        rect_vars, fx_module, m_valid, m_passes, m_textures,
                        m_source_options, m_options, m_uniforms_size, fx_stage >>

NextFx ==
    \/ LoadFromFileCall
    \/ CompilePipelineCall
    \/ ResizeOutputCall
    \/ ApplyCall

SpecFx == InitFx /\ [][NextFx]_vars

(***************************************************************************)
(* Reading the lists.                                                      *)
(***************************************************************************)
\* Most nodes a list can hold; a longer walk means the list has a cycle.
MaxWalk == MaxSources * MAX_PAGE_REFS_PER_SOURCE

\* The nodes met from node n on, following next.
RECURSIVE NodesFrom(_, _, _)
NodesFrom(hp, n, fuel) ==
    IF n = NullNode \/ n.s \notin SourceIds \/ fuel = 0
      THEN << >>
      ELSE << n >> \o NodesFrom(hp, hp[n.s].page_refs[n.i].next, fuel - 1)

\* The nodes of page p's list, head first.
ListNodes(ps, hp, p) == NodesFrom(hp, ps[p].head, MaxWalk + 1)

\* The Sources listed on page p, head first (each node's ref).
ListRefs(ps, hp, p) ==
    LET ns == ListNodes(ps, hp, p)
    IN  [k \in DOMAIN ns |-> hp[ns[k].s].page_refs[ns[k].i].ref]

\* The pages whose list holds a node of Source s.
ListedPages(ps, hp, s) ==
    {p \in Pages : \E k \in DOMAIN ListNodes(ps, hp, p) : ListNodes(ps, hp, p)[k].s = s}

IsEmptyList(ps, p) == ps[p].head = NullNode /\ ps[p].tail = NullNode

\* Every pointer stored in a list head or tail, and in the prev and next of
\* every node in use, is null or the address of a node in use of a Source
\* that has not been deleted.
NodeInUse(hp, n) ==
    /\ n.s \in SourceIds
    /\ hp[n.s].live
    /\ n.i < hp[n.s].num_page_refs

NoDanglingPointers(ps, hp) ==
    /\ \A p \in Pages :
          /\ ps[p].head = NullNode \/ NodeInUse(hp, ps[p].head)
          /\ ps[p].tail = NullNode \/ NodeInUse(hp, ps[p].tail)
    /\ \A s \in SourceIds : \A i \in RefIdx :
          NodeInUse(hp, NodePtr(s, i)) =>
              /\ hp[s].page_refs[i].prev = NullNode \/ NodeInUse(hp, hp[s].page_refs[i].prev)
              /\ hp[s].page_refs[i].next = NullNode \/ NodeInUse(hp, hp[s].page_refs[i].next)
              /\ hp[s].page_refs[i].ref = s

(***************************************************************************)
(* Properties.                                                             *)
(***************************************************************************)

\* C1 (invalidation completeness): right after InvalidatePages(x, y, w, h) no
\* Source is still in the cache whose pixel-data or palette footprint pages
\* intersect the rectangle, so a lookup of such a key has to decode afresh.
C1_InvalidationComplete ==
    op.name = "InvalidatePages" =>
        \A s \in LiveSources : FootprintPages(heap[s].key) \cap RectPages(op.rect) = {}

\* C2 (write, invalidate, then read): a lookup never returns a Source that
\* was decoded before a later write into its pixel or palette footprint.
C2_NoStaleLookup ==
    (op.name = "LookupSource" /\ ret # NULL) => ret \notin stale

\* C3 (page reference symmetry): for every live Source, the pages whose list
\* holds it are exactly the pages its key's pixel + palette footprint
\* intersects.
C3_PageRefSymmetry ==
    \A s \in LiveSources :
        ListedPages(m_page_sources, heap, s) = FootprintPages(heap[s].key)

\* C4 (InvalidatePages covers the rectangle): the pages InvalidatePages runs
\* InvalidatePage on are exactly the pages the rectangle intersects.
C4_InvalidatePagesCovers ==
    op.name = "InvalidatePages" => SeqToSet(op.pages) = RectPages(op.rect)

\* C5 (cache identity): a lookup of a key whose previous lookup returned a
\* Source, with no InvalidatePage run since on any page of the key's
\* footprint, returns that same Source, asks the device for no texture and
\* leaves every list and every Source as it was.
C5_CacheIdentity ==
    [][(op'.name = "LookupSource" /\ last_src[op'.key] # NULL) =>
          /\ ret' = last_src[op'.key]
          /\ op'.fetch = "none"
          /\ num_fetched' = num_fetched
          /\ m_page_sources' = m_page_sources
          /\ heap' = heap]_vars

\* A hit on a Source that is not the newest one, after some invalidation.
C5_Witness ==
    /\ op.name = "LookupSource"
    /\ op.fetch = "none"
    /\ ret # NULL
    /\ ret < num_fetched
    /\ num_recycled > 0

\* C6 (key uniqueness): no two live Sources have the same key.
C6_KeyUniqueness ==
    \A s, t \in LiveSources : heap[s].key = heap[t].key => s = t

\* A Source was just created while another page list holds two Sources and
\* earlier Sources have been freed.
C6_Witness ==
    /\ op.name = "LookupSource"
    /\ op.fetch = "ok"
    /\ num_recycled > 0
    /\ \E p \in Pages : Len(ListRefs(m_page_sources, heap, p)) >= 2

\* C7 (InvalidatePage): after InvalidatePage(pn) the list of pn is empty,
\* every Source that was listed on pn is deleted and on no list any more, no
\* pointer in a list refers to a deleted Source, and the loop has read no
\* node of a Source it had deleted.
C7_InvalidatePageSafe ==
    [][op'.name = "InvalidatePage" =>
          /\ IsEmptyList(m_page_sources', op'.pn)
          /\ \A s \in SeqToSet(ListRefs(m_page_sources, heap, op'.pn)) :
                /\ ~heap'[s].live
                /\ ListedPages(m_page_sources', heap', s) = {}
          /\ NoDanglingPointers(m_page_sources', heap')
          /\ "use_after_free" \notin faults']_vars

\* InvalidatePage deleted at least two Sources and left another one alive.
C7_Witness ==
    /\ op.name = "InvalidatePage"
    /\ Cardinality(op.freed) >= 2
    /\ LiveSources # {}

\* C8 (unrelated keys unaffected): InvalidatePage and InvalidatePages delete
\* only Sources whose footprint includes a page InvalidatePage ran on; every
\* other Source stays, with its key, on the same pages and in the same
\* relative order in each list.
C8_UnrelatedUnaffected ==
    [][op'.name \in {"InvalidatePage", "InvalidatePages"} =>
          LET gone == {s \in LiveSources : ~heap'[s].live}
              Stays(s) == s \notin gone
          IN  /\ \A s \in gone :
                    FootprintPages(heap[s].key) \cap SeqToSet(op'.pages) # {}
              /\ \A s \in LiveSources \ gone : heap'[s].key = heap[s].key
              /\ \A s \in SourceIds : heap'[s].live => heap[s].live
              /\ \A p \in Pages :
                    ListRefs(m_page_sources', heap', p) =
                        SelectSeq(ListRefs(m_page_sources, heap, p), Stays)]_vars

\* An invalidation deleted a Source and a list still holds two Sources.
C8_Witness ==
    /\ op.name \in {"InvalidatePage", "InvalidatePages"}
    /\ op.freed # {}
    /\ \E p \in Pages : Len(ListRefs(m_page_sources, heap, p)) >= 2

\* C9 (Clear): after Clear every page list is empty and no Source is live.
C9_ClearEmpties ==
    op.name = "Clear" =>
        /\ \A p \in Pages : IsEmptyList(m_page_sources, p)
        /\ LiveSources = {}

\* Clear deleted three Sources.
C9_Witness ==
    /\ op.name = "Clear"
    /\ Cardinality(op.freed) >= 3

\* C10 (allocation failure): a lookup that misses and gets no texture returns
\* null and changes neither the Sources nor the lists nor the texture
\* counts; the same lookup repeated with a texture available then succeeds.
C10_FetchFailure ==
    [][/\ (op'.name = "LookupSource" /\ op'.fetch = "failed") =>
             /\ ret' = NULL
             /\ heap' = heap
             /\ m_page_sources' = m_page_sources
             /\ num_fetched' = num_fetched
             /\ num_recycled' = num_recycled
             /\ faults' = faults
       /\ (op.name = "LookupSource" /\ op.fetch = "failed"
             /\ op'.name = "LookupSource" /\ op'.fetch = "ok" /\ op'.key = op.key) =>
             /\ ret' # NULL
             /\ heap'[ret'].live
             /\ heap'[ret'].key = op.key
             /\ op.key.page \in ListedPages(m_page_sources', heap', ret')]_vars

\* A failed lookup in a cache that holds Sources and has freed others.
C10_Witness ==
    /\ op.name = "LookupSource"
    /\ op.fetch = "failed"
    /\ ret = NULL
    /\ LiveSources # {}
    /\ num_recycled > 0

\* C11: back-reference bound.  For every key, in every reachable state, a
\* Source's num_page_refs is at most MAX_PAGE_REFS_PER_SOURCE, and
\* CreateSource never indexes page_refs or page_refns at position 6 or
\* beyond.
C11_PageRefBound ==
    /\ \A s \in SourceIds : heap[s].num_page_refs <= MAX_PAGE_REFS_PER_SOURCE
    /\ "page_refs_overflow" \notin faults

\* An 8-bit Source whose add_page_ref was called seven times (two pixel
\* columns, five palette columns) has been created.
C11_Witness ==
    /\ op.name = "LookupSource"
    /\ op.fetch = "ok"
    /\ op.key.mode = Palette8Bit
    /\ Len(SourcePageCalls(op.key)) > MAX_PAGE_REFS_PER_SOURCE
    /\ ret # NULL
    /\ heap[ret].live
    /\ heap[ret].num_page_refs = 2
    /\ faults = {}

\* C12: footprint size.  For every key the pixel+palette footprint has at
\* most 6 distinct pages: 4 pages in 16-bit direct mode, at most 2 pixel and
\* 4 palette pages in 8-bit mode, at most 1 and 1 in 4-bit mode.
C12_FootprintSize ==
    LET key == op.key
        pixel == RectPages(PixelRect(key))
        palette == RectPages(PaletteRect(key))
    IN  key # NoKey =>
          /\ Cardinality(FootprintPages(key)) <= MAX_PAGE_REFS_PER_SOURCE
          /\ key.mode >= Direct16Bit => Cardinality(FootprintPages(key)) = 4
          /\ key.mode = Palette8Bit =>
                Cardinality(pixel) <= 2 /\ Cardinality(palette) <= 4
          /\ key.mode = Palette4Bit =>
                Cardinality(pixel) <= 1 /\ Cardinality(palette) <= 1

\* C13: decode correctness.  If every word of the page is 0 and palette
\* entry 0 is 0x8000, decoding the page in 4-bit palette mode yields a
\* 256x256 texture whose every texel is RGBA(0,0,0,255).
C13_DecodeCorrectness ==
    (/\ op.name = "DecodeTexture"
     /\ decode_key.mode = Palette4Bit
     /\ PageFilledWith(g_vram, decode_key.page, 0)
     /\ PaletteEntry0(g_vram, decode_key.palette) = 32768)
    => LET tex == Texels(tex_map)
       IN  /\ DOMAIN tex = TexRows
           /\ \A y \in TexRows :
                /\ DOMAIN tex[y] = TexCols
                /\ \A x \in TexCols : tex[y][x] = RGBA(0, 0, 0, 255)

\* A zero-filled page was decoded in 4-bit mode with a palette at (320, 300),
\* outside the page, whose entry 0 is 0x8000.
C13_Witness ==
    /\ op.name = "DecodeTexture"
    /\ decode_key.mode = Palette4Bit
    /\ decode_key.page = 0
    /\ GetXBase(decode_key.palette) = 320
    /\ GetYBase(decode_key.palette) = 300
    /\ PageFilledWith(g_vram, decode_key.page, 0)
    /\ PaletteEntry0(g_vram, decode_key.palette) = 32768
    /\ Texels(tex_map)[255][255] = RGBA(0, 0, 0, 255)

\* C14: two-pass trigger.  A batch with texturing enabled and transparency
\* mode BackgroundMinusForeground, on a device without dual-source blend,
\* resolves to render mode TransparentAndOpaque, and its flush issues exactly
\* two draws over the batch's vertex range, OnlyOpaque and then
\* OnlyTransparent, never a single TransparentAndOpaque draw.
C14_TwoPassTrigger ==
    (/\ op.name = "FlushRender"
     /\ cmd.name = "FlushRender"
     /\ cmd.flushes = 1
     /\ m_batch.texture_mode # GPUTextureMode_Disabled
     /\ m_batch.transparency_mode = BackgroundMinusForeground
     /\ ~m_supports_dual_source_blend)
    => /\ GetRenderMode(m_batch) = TransparentAndOpaque
       /\ Len(cmd.draws) = 2
       /\ cmd.draws[1].mode = OnlyOpaque
       /\ cmd.draws[2].mode = OnlyTransparent
       /\ cmd.draws[1].n # U32(0)
       /\ cmd.draws[1].n = cmd.draws[2].n
       /\ cmd.draws[1].base = cmd.draws[2].base
       /\ cmd.draws[1].cfgs = {m_batch}
       /\ cmd.draws[2].cfgs = {m_batch}

\* Two triangles under the textured background-minus-foreground
\* configuration were flushed in two draws on a device without dual-source
\* blend.
C14_Witness ==
    /\ op.name = "FlushRender"
    /\ cmd.name = "FlushRender"
    /\ cmd.flushes = 1
    /\ m_batch = CfgTexturedBMF
    /\ ~m_supports_dual_source_blend
    /\ Len(cmd.draws) = 2
    /\ cmd.draws[1].n = U32(6)

\* C15: batch homogeneity.  Whenever the configuration derived from the GPU
\* state differs in any field from the in-flight batch's, the in-flight
\* batch is flushed before any vertex of the new primitive is appended;
\* hence every draw call covers vertices that were all admitted under one
\* identical configuration.
C15_BatchHomogeneity ==
    [][/\ (/\ op'.name \in {"DispatchRenderCommand", "DispatchRenderCommand (culled)"}
           /\ m_batch' # m_batch
           /\ m_batch_current_vertex_ptr # m_batch_start_vertex_ptr)
          => /\ cmd'.flushes >= 1
             /\ cmd'.draws # << >>
             /\ cmd'.draws[1].cfgs = {m_batch}
             /\ cmd'.draws[1].n = U32(m_batch_current_vertex_ptr - m_batch_start_vertex_ptr)
       /\ batch_cfgs' \subseteq {m_batch'}
       /\ \A k \in DOMAIN cmd'.draws : Cardinality(cmd'.draws[k].cfgs) = 1
      ]_vars

\* A triangle whose configuration differs from the in-flight batch's in the
\* dithering flag alone was admitted: the batch was drawn first although the
\* buffer had room.
C15_Witness ==
    /\ op.name = "DispatchRenderCommand"
    /\ cmd.flushes = 1
    /\ cmd.resets = 0
    /\ Len(cmd.draws) = 2
    /\ cmd.draws[1].cfgs = {CfgTexturedBMF}
    /\ cmd.draws[1].n = U32(3)
    /\ m_batch = [CfgTexturedBMF EXCEPT !.dithering = TRUE]
    /\ batch_cfgs = {m_batch}
    /\ m_batch_current_vertex_ptr - m_batch_start_vertex_ptr = 3

\* C16: batch flush idempotence.  FlushRender on an empty batch (current
\* vertex pointer equal to the start pointer) issues no draw call and leaves
\* the batch pointers, base vertex, depth counter, batch configuration,
\* dirty rectangle and texture cache unchanged; a flush right after a flush
\* changes nothing either.
C16_FlushIdempotence ==
    [][(/\ op'.name = "FlushRender"
        /\ \/ m_batch_current_vertex_ptr = m_batch_start_vertex_ptr
           \/ op.name = "FlushRender")
       => /\ cmd'.draws = << >>
          /\ cmd'.writes = << >>
          /\ UNCHANGED << m_batch, m_batch_start_vertex_ptr, m_batch_end_vertex_ptr,
                          m_batch_current_vertex_ptr, m_batch_base_vertex,
                          m_current_depth, m_vram_dirty_rect, m_page_sources, heap,
                          num_recycled, batch_rect, batch_cfgs >>
      ]_vars

\* FlushRender ran on a mapped buffer holding no vertex, with a Source in the
\* cache and a dirty rectangle from an earlier draw.
C16_Witness ==
    /\ op.name = "FlushRender"
    /\ cmd.name = "FlushRender"
    /\ cmd.draws = << >>
    /\ m_batch_current_vertex_ptr = m_batch_start_vertex_ptr
    /\ m_batch_current_vertex_ptr # NULL
    /\ LiveSources # {}
    /\ m_vram_dirty_rect # InvalidRect

\* C17: vertex buffer capacity.  If a primitive's required vertex count
\* exceeds the remaining space (end pointer minus current pointer) the
\* buffer is flushed and remapped from its start before the vertices are
\* appended; in every reachable state start <= current <= end, and no
\* AddVertex/AddNewVertex writes at or beyond the end pointer.
C17_VertexBufferCapacity ==
    [][/\ m_batch_start_vertex_ptr' <= m_batch_current_vertex_ptr'
       /\ m_batch_current_vertex_ptr' <= m_batch_end_vertex_ptr'
       /\ "vertex_write_out_of_bounds" \notin faults'
       /\ (/\ op'.name \in {"DispatchRenderCommand", "DispatchRenderCommand (culled)"}
           /\ m_batch_current_vertex_ptr # NULL
           /\ cmd'.required > m_batch_end_vertex_ptr - m_batch_current_vertex_ptr)
          => /\ cmd'.flushes >= 1
             /\ cmd'.draws # << >>
             /\ cmd'.draws[1].n = U32(m_batch_current_vertex_ptr - m_batch_start_vertex_ptr)
             /\ m_batch_start_vertex_ptr' = VertexBufferStart
             /\ m_batch_end_vertex_ptr' = VertexBufferStart + MaxVertexSpace
             /\ m_batch_current_vertex_ptr' - m_batch_start_vertex_ptr'
                   \in {0, cmd'.required}
      ]_vars

\* A primitive of the in-flight batch's configuration found the buffer too
\* full: the six vertices in it were drawn and the new ones were written
\* from the start of the remapped buffer.
C17_Witness ==
    /\ op.name = "DispatchRenderCommand"
    /\ cmd.flushes = 1
    /\ cmd.resets = 0
    /\ cmd.draws # << >>
    /\ cmd.draws[1].n = U32(6)
    /\ cmd.draws[1].cfgs = {m_batch}
    /\ m_batch_start_vertex_ptr = VertexBufferStart
    /\ m_batch_current_vertex_ptr = VertexBufferStart + cmd.required

\* C19: depth counter reset discipline.  The counter is reset only by
\* ResetBatchVertexDepth (start of frame, explicit clear): no other operation
\* resets it or takes it back, and a reset never happens while the batch
\* holds unflushed vertices: those are drawn before the counter is restarted.
\* A flush by itself never changes the counter, and every primitive drawn
\* takes the next counter value, so that its depth is below the depth of the
\* primitive drawn before it, across any number of flushes.
C19_ResetDiscipline ==
    [][/\ m_current_depth' < m_current_depth => op'.name = "ResetBatchVertexDepth"
       /\ (op'.name = cmd'.name /\ cmd'.resets >= 1) => op'.name = "ResetBatchVertexDepth"
       /\ (/\ op'.name = "ResetBatchVertexDepth"
           /\ m_batch_current_vertex_ptr # m_batch_start_vertex_ptr)
          => /\ cmd'.flushes >= 1
             /\ cmd'.draws # << >>
             /\ cmd'.draws[1].n = U32(m_batch_current_vertex_ptr - m_batch_start_vertex_ptr)
             /\ cmd'.draws[1].cfgs = batch_cfgs
       /\ op'.name = "ResetBatchVertexDepth" => m_batch_current_vertex_ptr' = m_batch_start_vertex_ptr'
       /\ op'.name = "FlushRender" => m_current_depth' = m_current_depth
       /\ op'.name = "DispatchRenderCommand (culled)" => m_current_depth' = m_current_depth
       /\ (op'.name = "DispatchRenderCommand" /\ "segfault" \notin faults')
          => /\ m_current_depth' = m_current_depth + 1
             /\ prim_depth # NoDepth => prim_depth' < prim_depth
      ]_vars

\* The counter was restarted at a frame start while three vertices were in
\* flight: they were drawn first.
C19_Witness ==
    /\ op.name = "ResetBatchVertexDepth"
    /\ cmd.name = "ResetBatchVertexDepth"
    /\ cmd.resets = 1
    /\ cmd.flushes = 1
    /\ cmd.draws # << >>
    /\ cmd.draws[1].n = U32(3)
    /\ m_current_depth = 1
    /\ m_batch_current_vertex_ptr = m_batch_start_vertex_ptr

\* C20: dirty rectangle growth.  After every draw, fill, copy or update the
\* dirty rectangle contains its previous value and the rectangle touched,
\* and is their bounding union; it never shrinks, and becomes empty only by
\* the explicit clear after a read-back.
C20_DirtyRectGrowth ==
    [][LET d == m_vram_dirty_rect
           e == m_vram_dirty_rect'
           r == op'.rect
           Min(a, b) == IF a < b THEN a ELSE b
           Max(a, b) == IF a > b THEN a ELSE b
       IN  /\ op'.name \in {"FlushRender", "FillVRAM", "CopyVRAM", "UpdateVRAM"}
              => /\ e.left <= d.left /\ e.top <= d.top
                 /\ e.right >= d.right /\ e.bottom >= d.bottom
                 /\ e.left <= r.x /\ e.top <= r.y
                 /\ e.right >= r.x + r.w /\ e.bottom >= r.y + r.h
                 /\ e.left = Min(d.left, r.x) /\ e.top = Min(d.top, r.y)
                 /\ e.right = Max(d.right, r.x + r.w)
                 /\ e.bottom = Max(d.bottom, r.y + r.h)
           /\ (e.left > d.left \/ e.top > d.top \/ e.right < d.right \/ e.bottom < d.bottom)
              => /\ op'.name = "UpdateVRAMReadTexture"
                 /\ e = InvalidRect
      ]_vars

\* A copy grew a dirty rectangle that an earlier write had started: it now
\* bounds the words (0..15, 0) and (100..227, 0).
C20_Witness ==
    /\ op.name = "CopyVRAM"
    /\ op.rect = Rect(100, 0, 128, 1)
    /\ m_vram_dirty_rect = [left |-> 0, top |-> 0, right |-> 228, bottom |-> 1]

\* C21: NeedsTwoPassRendering and GetRenderMode.  A flushed batch is drawn
\* twice (OnlyOpaque, then OnlyTransparent) exactly when it is textured and
\* either its transparency mode is BackgroundMinusForeground, or the device
\* lacks dual-source blend and transparency is not Disabled.  An untextured
\* batch and one with transparency Disabled are drawn once; the single draw
\* uses TransparencyDisabled iff transparency is Disabled and
\* TransparentAndOpaque otherwise.
C21_TwoPassTable ==
    (op.name = "FlushRender" /\ cmd.draws # << >>) =>
        LET textured == m_batch.texture_mode # GPUTextureMode_Disabled
            blended == m_batch.transparency_mode # GPUTransparencyMode_Disabled
            subtract == m_batch.transparency_mode = BackgroundMinusForeground
            twice == Len(cmd.draws) = 2
        IN  /\ cmd.draws[1].cfgs = {m_batch}
            /\ Len(cmd.draws) \in {1, 2}
            /\ twice <=> (textured /\ (subtract \/ (~m_supports_dual_source_blend /\ blended)))
            /\ (textured /\ ~m_supports_dual_source_blend /\ blended) => twice
            /\ (~textured \/ ~blended) => ~twice
            /\ twice => (cmd.draws[1].mode = OnlyOpaque /\ cmd.draws[2].mode = OnlyTransparent)
            /\ ~twice => (cmd.draws[1].mode = TransparencyDisabled <=> ~blended)
            /\ ~twice => (cmd.draws[1].mode = TransparentAndOpaque <=> blended)
            /\ GetRenderMode(m_batch) = TransparencyDisabled <=> ~blended
            /\ GetRenderMode(m_batch) = TransparentAndOpaque <=> blended

\* A textured batch with an additive blend mode was flushed in one
\* TransparentAndOpaque draw on a device with dual-source blend.
C21_Witness ==
    /\ op.name = "FlushRender"
    /\ m_supports_dual_source_blend
    /\ m_batch.texture_mode = Palette8Bit
    /\ m_batch.transparency_mode = BackgroundPlusQuarterForeground
    /\ Len(cmd.draws) = 1
    /\ cmd.draws[1].mode = TransparentAndOpaque
    /\ cmd.draws[1].n = U32(6)

\* C22: decode mapping per mode.  For every row y of the key's page, with
\* word_i the i-th word of that row from the page origin and the palette
\* starting at (palette X base, palette Y base): in 4-bit mode texel 4i+j is
\* the conversion of palette[(word_i >> 4j) & 0xF], in 8-bit mode texel 2i+j
\* is the conversion of palette[(word_i >> 8j) & 0xFF], and in the direct
\* modes texel i is the conversion of word_i.
C22_DecodeMapping ==
    op.name = "DecodeTexture" =>
        LET Word(y, i) ==
                VRAMRead(g_vram, ((PageStartY(decode_key.page) + y) * VRAM_WIDTH)
                                   + PageStartX(decode_key.page) + i)
            Pal(k) ==
                VRAMRead(g_vram, (GetYBase(decode_key.palette) * VRAM_WIDTH)
                                   + GetXBase(decode_key.palette) + k)
            tex == Texels(tex_map)
        IN  /\ DOMAIN tex = 0 .. 255
            /\ \A y \in 0 .. 255 :
                  /\ DOMAIN tex[y] = 0 .. 255
                  /\ decode_key.mode = Palette4Bit =>
                        \A i \in 0 .. 63, j \in 0 .. 3 :
                            tex[y][(4 * i) + j] =
                                VRAMRGBA5551ToRGBA8888(Pal((Word(y, i) \div (2 ^ (4 * j))) % 16))
                  /\ decode_key.mode = Palette8Bit =>
                        \A i \in 0 .. 127, j \in 0 .. 1 :
                            tex[y][(2 * i) + j] =
                                VRAMRGBA5551ToRGBA8888(Pal((Word(y, i) \div (2 ^ (8 * j))) % 256))
                  /\ decode_key.mode \in {Direct16Bit, Reserved_Direct16Bit} =>
                        \A i \in 0 .. 255 :
                            tex[y][i] = VRAMRGBA5551ToRGBA8888(Word(y, i))

\* A page decoded in 4-bit mode whose last word is 0x1000: the last texel of
\* the last row comes from palette entry 1, the three before it from entry
\* 0, and the two entries hold different colours.
C22_Witness ==
    /\ op.name = "DecodeTexture"
    /\ decode_key.mode = Palette4Bit
    /\ decode_key.page = 21
    /\ VRAMRead(g_vram, VRAMPagePointer(21) + (255 * VRAM_WIDTH) + 63) = 4096
    /\ LET tex == Texels(tex_map)
       IN  /\ tex[255][255] # tex[255][252]
           /\ tex[255][254] = tex[255][252]

\* C23: duplicate suppression.  Each live Source has at most one node in any
\* single page's list, also when its pixel data and its palette lie in the
\* same page, and the pages of its first num_page_refs back-references are
\* pairwise distinct.
C23_NoDuplicateRefs ==
    \A s \in LiveSources :
        /\ \A p \in Pages :
              LET ns == ListNodes(m_page_sources, heap, p)
              IN  Cardinality({k \in DOMAIN ns : ns[k].s = s}) <= 1
        /\ \A i, j \in 0 .. (heap[s].num_page_refs - 1) :
              i # j => heap[s].page_refs[i].list # heap[s].page_refs[j].list

\* Live at once: a 4-bit Source whose palette lies in its pixel page, with
\* one back-reference, and an 8-bit Source with a back-reference for its
\* page and one for its palette's.
C23_Witness ==
    \E s, t \in LiveSources :
        /\ heap[s].key = KeyP4Same
        /\ heap[s].num_page_refs = 1
        /\ heap[t].key = KeyP8
        /\ heap[t].num_page_refs = 2
        /\ Len(SourcePageCalls(KeyP8)) = 6

\* C24: LoopPages preconditions.  For every key, both rectangles CreateSource
\* passes to LoopPages (pixel data and palette) have width > 0, height > 0,
\* x + width <= VRAM_WIDTH and y + height <= VRAM_HEIGHT, so the assertions
\* of LoopPages never fail and no page index >= 32 is produced.
C24_LoopPagesPreconditions ==
    (op.name = "LookupSource" /\ op.fetch = "ok") =>
        LET InVRAM(r) == /\ r.w > 0 /\ r.h > 0
                         /\ r.x + r.w <= VRAM_WIDTH /\ r.y + r.h <= VRAM_HEIGHT
        IN  /\ \A r \in FootprintRects(op.key) : InVRAM(r)
            /\ "debug_assert" \notin faults
            /\ "page_out_of_range" \notin faults
            /\ \A k \in DOMAIN SourcePageCalls(op.key) : SourcePageCalls(op.key)[k] < NUM_PAGES

\* C25: decode reads stay inside video memory.  For every key, every word
\* DecodeTexture reads, pixel word or palette entry, has a linear index below
\* VRAM_WIDTH * VRAM_HEIGHT and lies in the VRAM row in which the row being
\* read starts.
C25_DecodeReadsInside ==
    op.name = "DecodeTexture" =>
        /\ "vram_read_out_of_bounds" \notin faults
        /\ LET reads == DecodeTextureReads(g_vram, decode_key.page, decode_key.palette,
                                           decode_key.mode)
           IN  \A y \in DOMAIN reads : \A x \in DOMAIN reads[y] : \A rd \in reads[y][x] :
                  /\ rd.a < VRAM_WIDTH * VRAM_HEIGHT
                  /\ rd.a \div VRAM_WIDTH = rd.row \div VRAM_WIDTH

\* C26: list well-formedness.  After any sequence of LookupSource,
\* InvalidatePage, InvalidatePages and Clear every page list is a
\* well-formed doubly-linked list: head is null iff tail is null, head's prev
\* and tail's next are null, n.next.prev = n for every node but the tail,
\* every node's list field is the list that contains it and every node's ref
\* is the live Source that owns the node.
C26_ListWellFormed ==
    \A p \in Pages :
        LET head == m_page_sources[p].head
            tail == m_page_sources[p].tail
            ns == ListNodes(m_page_sources, heap, p)
            Node(n) == heap[n.s].page_refs[n.i]
        IN  /\ head = NullNode <=> tail = NullNode
            /\ Len(ns) <= MaxWalk
            /\ head # NullNode =>
                  /\ NodeInUse(heap, head) /\ NodeInUse(heap, tail)
                  /\ Node(head).prev = NullNode
                  /\ Node(tail).next = NullNode
                  /\ ns[Len(ns)] = tail
            /\ \A k \in DOMAIN ns :
                  /\ NodeInUse(heap, ns[k])
                  /\ Node(ns[k]).list = p
                  /\ Node(ns[k]).ref = ns[k].s
                  /\ heap[Node(ns[k]).ref].live
                  /\ k < Len(ns) =>
                        /\ Node(ns[k]).next = ns[k + 1]
                        /\ Node(ns[k + 1]).prev = ns[k]

\* InvalidatePage(16) deleted a Source that was also linked in the list of
\* page 0, which still holds two nodes.
C26_Witness ==
    /\ op.name = "InvalidatePage"
    /\ op.pn = 16
    /\ op.freed # {}
    /\ Len(ListNodes(m_page_sources, heap, 0)) = 2
    /\ m_page_sources[0].head # m_page_sources[0].tail
    /\ num_recycled >= 2

\* C27: reachability of live Sources.  Every live Source is linked in the
\* list of its own key.page, the list LookupSource scans: a lookup of its
\* key returns it, InvalidatePage of its key page frees it, and no Source
\* exists that is linked in no list.
C27_LiveSourcesReachable ==
    [][/\ \A s \in SourceIds :
             heap'[s].live =>
                 heap'[s].key.page \in ListedPages(m_page_sources', heap', s)
       /\ op'.name = "LookupSource" =>
             \A s \in LiveSources : heap[s].key = op'.key => ret' = s
       /\ op'.name = "InvalidatePage" =>
             \A s \in LiveSources : heap[s].key.page = op'.pn => ~heap'[s].live
      ]_vars

\* A lookup returned the 16-bit Source of page 0, found in the middle of the
\* three-node list of page 0.
C27_Witness ==
    /\ op.name = "LookupSource"
    /\ op.fetch = "none"
    /\ ret # NULL
    /\ heap[ret].live
    /\ heap[ret].key = KeyD16
    /\ Len(ListNodes(m_page_sources, heap, 0)) = 3
    /\ ListNodes(m_page_sources, heap, 0)[2].s = ret

\* C28: texture conservation.  Successful FetchTexture calls minus
\* RecycleTexture calls equals the number of live Sources; an operation
\* recycles exactly one texture per Source it frees; after Clear every
\* fetched texture has been recycled.
C28_TextureConservation ==
    [][/\ num_fetched - num_recycled = Cardinality(LiveSources)
       /\ num_fetched' - num_recycled' = Cardinality({s \in SourceIds : heap'[s].live})
       /\ num_recycled' - num_recycled =
              Cardinality({s \in LiveSources : ~heap'[s].live})
       /\ num_fetched' - num_fetched =
              Cardinality({s \in SourceIds : heap'[s].live /\ ~heap[s].live})
       /\ op'.name = "Clear" => num_recycled' = num_fetched'
      ]_vars

\* Clear recycled the textures of the two Sources left, after two others had
\* been recycled by invalidations.
C28_Witness ==
    /\ op.name = "Clear"
    /\ Cardinality(op.freed) = 2
    /\ num_fetched >= 4
    /\ num_recycled = num_fetched

\* C29: invalidation idempotence.  InvalidatePage(pn) right after
\* InvalidatePage(pn), InvalidatePages on the rectangle just invalidated and
\* Clear right after Clear free no Source, recycle no texture and leave the
\* cache as it was; so does InvalidatePage on a page whose list is empty.
C29_InvalidationIdempotent ==
    [][(\/ op'.name = "InvalidatePage" /\ op.name = "InvalidatePage" /\ op'.pn = op.pn
        \/ op'.name = "InvalidatePages" /\ op.name = "InvalidatePages" /\ op'.rect = op.rect
        \/ op'.name = "Clear" /\ op.name = "Clear"
        \/ op'.name = "InvalidatePage" /\ IsEmptyList(m_page_sources, op'.pn))
       => /\ op'.freed = {}
          /\ num_recycled' = num_recycled
          /\ num_fetched' = num_fetched
          /\ m_page_sources' = m_page_sources
          /\ heap' = heap
          /\ faults' = faults
      ]_vars

\* InvalidatePage(0) found the list of page 0 empty and freed nothing, in a
\* cache that holds other Sources and has freed two.
C29_Witness ==
    /\ op.name = "InvalidatePage"
    /\ op.pn = 0
    /\ op.freed = {}
    /\ IsEmptyList(m_page_sources, 0)
    /\ LiveSources # {}
    /\ num_recycled >= 2

\* C30: key equality is exact over page, mode and palette register.  A
\* lookup hits a Source only if all three are equal, so direct-mode keys
\* that differ only in the palette register, or only in Direct16Bit against
\* Reserved_Direct16Bit, each get their own Source; these Sources are listed
\* on the same pages and are freed together when one of those pages is
\* invalidated.
C30_KeyEqualityExact ==
    [][/\ (op'.name = "LookupSource" /\ ret' # NULL) =>
             /\ heap'[ret'].key.page = op'.key.page
             /\ heap'[ret'].key.mode = op'.key.mode
             /\ heap'[ret'].key.palette = op'.key.palette
       /\ (op'.name = "LookupSource" /\ op'.fetch = "ok"
             /\ \A s \in LiveSources : heap[s].key # op'.key) =>
             /\ ret' \notin LiveSources
             /\ heap'[ret'].live
             /\ \A s \in LiveSources : heap'[s].live /\ heap'[s].key = heap[s].key
       /\ \A s, t \in SourceIds :
             (/\ heap'[s].live /\ heap'[t].live
              /\ heap'[s].key.page = heap'[t].key.page
              /\ heap'[s].key.mode >= Direct16Bit
              /\ heap'[t].key.mode >= Direct16Bit) =>
                 ListedPages(m_page_sources', heap', s) = ListedPages(m_page_sources', heap', t)
       /\ op'.name = "InvalidatePage" =>
             \A s, t \in LiveSources :
                 (/\ op'.pn \in ListedPages(m_page_sources, heap, s)
                  /\ heap[s].key.page = heap[t].key.page
                  /\ heap[s].key.mode >= Direct16Bit
                  /\ heap[t].key.mode >= Direct16Bit) =>
                     (~heap'[s].live /\ ~heap'[t].live)
      ]_vars

\* InvalidatePage(0) freed three Sources at once: two 16-bit ones that differ
\* in the palette register and a reserved-mode one.
C30_Witness ==
    /\ op.name = "InvalidatePage"
    /\ op.pn = 0
    /\ Cardinality(op.freed) = 3
    /\ LiveSources = {}
    /\ num_fetched >= 3


\* C31 (rectangle tiling bound): a rectangle command no larger than
\* MAX_PRIMITIVE_WIDTH x MAX_PRIMITIVE_HEIGHT, whatever its starting texture
\* coordinate, is split into at most
\* (ceil(MAX_PRIMITIVE_WIDTH/256)+1) * (ceil(MAX_PRIMITIVE_HEIGHT/256)+1)
\* tiles of 6 vertices, never more than MAX_VERTICES_FOR_RECTANGLE vertices,
\* so the tiles fit the space reserved for the command.
C31_RectangleTilingBound ==
    op.name = "LoadRectangle" =>
        /\ Len(rect_tiles)
             <= (((MAX_PRIMITIVE_WIDTH + 255) \div 256) + 1)
                  * (((MAX_PRIMITIVE_HEIGHT + 255) \div 256) + 1)
        /\ RectangleVertexCount(rect_tiles) <= MAX_VERTICES_FOR_RECTANGLE
        /\ "vertex_write_out_of_bounds" \notin faults

\* The largest rectangle, its texture coordinate one short of the page
\* boundary on both axes: 5 x 3 tiles, all the reserved vertices in use.
C31_Witness ==
    /\ op.name = "LoadRectangle"
    /\ rect_cmd = RectCmd(MAX_PRIMITIVE_WIDTH, MAX_PRIMITIVE_HEIGHT, 255, 255)
    /\ Len(rect_tiles) = 15
    /\ RectangleVertexCount(rect_tiles) = MAX_VERTICES_FOR_RECTANGLE


\* C32 (post-processing shader validity): whatever LoadFromFile,
\* CompilePipeline and ResizeOutput calls were made and however they ended,
\* IsValid() implies that every pass has a pipeline and every render-target
\* texture has a texture and a framebuffer; a CompilePipeline or
\* ResizeOutput that failed leaves IsValid() false.
C32_ValidImpliesUsable ==
    /\ IsValid =>
          /\ \A i \in 1..Len(m_passes) : m_passes[i].pipeline
          /\ \A i \in 1..Len(m_textures) :
                m_textures[i].rt_scale # 0 =>
                    m_textures[i].texture /\ m_textures[i].framebuffer
    /\ (op.name \in {"CompilePipeline", "ResizeOutput"} /\ ~op.ok) => ~IsValid


\* C33 (pass graph resolution): once CompilePipeline (with its CreatePasses)
\* and then ResizeOutput have succeeded, the final pass and only the final
\* pass targets OUTPUT_COLOR_TEXTURE, every other pass targets a texture of
\* m_textures that has a framebuffer, every sampler reads INPUT_COLOR_TEXTURE
\* or a texture of m_textures, and Apply runs into no Panic and no failed
\* Assert.
C33_PassGraphResolves ==
    fx_stage = "resized" =>
        /\ \A i \in 1..Len(m_passes) :
              /\ (m_passes[i].render_target = OUTPUT_COLOR_TEXTURE) <=> (i = Len(m_passes))
              /\ i < Len(m_passes) =>
                    /\ m_passes[i].render_target \in 0..(Len(m_textures) - 1)
                    /\ m_textures[m_passes[i].render_target + 1].framebuffer
              /\ \A j \in 1..Len(m_passes[i].samplers) :
                    \/ m_passes[i].samplers[j].texture_id = INPUT_COLOR_TEXTURE
                    \/ m_passes[i].samplers[j].texture_id \in 0..(Len(m_textures) - 1)
        /\ op.name = "Apply" => faults \cap {"panic", "assert"} = {}


\* C34 (buffer-size uniforms): after Apply on a shader whose options were
\* loaded, a uniform with initializer BUFFER_WIDTH holds the default buffer
\* width and one with initializer BUFFER_HEIGHT the default buffer height,
\* as an integer for an integer uniform and as a float for a float uniform.
C34_BufferSizeUniforms ==
    (op.name = "Apply" /\ m_uniforms_size > 0) =>
        \A i \in 1..Len(fx_module.uniforms) :
            LET ui == fx_module.uniforms[i]
                size == IF ui.string_data = "BUFFER_WIDTH" THEN op.size[1] ELSE op.size[2]
            IN  (/\ ui.source = ""
                 /\ ui.has_initializer_value
                 /\ ui.string_data \in {"BUFFER_WIDTH", "BUFFER_HEIGHT"}) =>
                    /\ ui.offset \in DOMAIN uniforms
                    /\ uniforms[ui.offset] = IF ui.type = "float"
                                               THEN FloatBits(StaticCastFloat(size))
                                               ELSE size

====
